---- MODULE Spec2Model ----
(***************************************************************************)
(* Generalized XMSS signature scheme (key_gen / sign / verify) over a      *)
(* tweakable hash, a PRF, a message hash and an incomparable encoding.     *)
(*                                                                         *)
(* Conventions of the model                                                *)
(*  - A TH.Domain value (a hash output, a PRF output, a random padding     *)
(*    node) is a sequence of naturals.  The tweakable hash and the PRF are *)
(*    ideal: their output is the self-delimiting serialisation of their    *)
(*    input, so they are injective and domain separated.                   *)
(*  - SHA3-256 of the message-hash input is a fixed deterministic mixing   *)
(*    function of (rho, parameter, epoch, message) into bytes.             *)
(*  - A Python call resolves to the callee of that name with the scheme's  *)
(*    TH / PRF / IE components supplied (IE.encode is the encoding's       *)
(*    apply, HashTree.new/root/path are the HashTreeBuilder methods).      *)
(*  - An operation that can raise returns a record whose status field is   *)
(*    "ok" or the name of the exception.                                   *)
(***************************************************************************)
EXTENDS Integers, Sequences, FiniteSets, TLC

\* ---------------------------------------------------------------- bounds
LOG_LIFETIME == 2
MH_BYTES == 1
NUM_CHECKSUM_CHAINS == 2
TARGET_SUM == 6
MAX_TRIES == 2
MaxSeed == 0
RNG_STRIDE == 16
MaxMsgId == 1
MaxRhoId == 1
MaxN0 == 4
MaxDepth == 3
MaxSteps == 3
MaxChainId == 1
MaxBase == 4
MaxV == 3
MaxWExp == 2
MaxTsV == 3
ShaParameterLen == 1
ShaRandLen == 1
MaxParts == 3
MaxPadUpdates == 10
MaxAcc == 5
MaxThreads == 3

\* ------------------------------------------------------ program constants
MESSAGE_LENGTH == 32
TWEAK_SEPARATOR_FOR_MESSAGE_HASH == 2
TWEAK_SEPARATOR_FOR_TREE_HASH == 1
TWEAK_SEPARATOR_FOR_CHAIN_HASH == 0
RAND_LEN == 23
CHUNK_SIZE == 2
MAX_DIMENSION == 100
P_BABYBEAR == 2013265921

LIFETIME == 2 ^ LOG_LIFETIME
NUM_CHUNKS == (MH_BYTES * 8) \div CHUNK_SIZE
BASE == 2 ^ CHUNK_SIZE

RECURSIVE SumSeq(_)
SumSeq(s) == IF s = <<>> THEN 0 ELSE Head(s) + SumSeq(Tail(s))

\* ------------------------------------------------------- tweakable hash
tree_tweak(level, pos_in_level) ==
    <<TWEAK_SEPARATOR_FOR_TREE_HASH, level, pos_in_level>>

chain_tweak(epoch, chain_index, pos_in_chain) ==
    <<TWEAK_SEPARATOR_FOR_CHAIN_HASH, epoch, chain_index, pos_in_chain>>

\* The message list, each element prefixed by its length.
RECURSIVE Flat(_)
Flat(message) ==
    IF message = <<>> THEN <<>>
    ELSE <<Len(Head(message))>> \o Head(message) \o Flat(Tail(message))

\* TH.apply(parameter, tweak, message) on a list of Domain values.
\* The leading 2 tags a hash output (3: PRF output, 4: random Domain value).
TH_apply(parameter, tweak, message) ==
    <<2, parameter>> \o tweak \o <<Len(message)>> \o Flat(message)

\* rng: a seeded stream [seed, ctr]; every draw of one stream is fresh.
rng_value(rng) == rng.seed * RNG_STRIDE + rng.ctr
rng_next(rng) == [rng EXCEPT !.ctr = @ + 1]
rand_parameter(rng) == rng_value(rng)
rand_domain(rng) == <<4, rng_value(rng)>>

\* ------------------------------------------------------------------ PRF
PRF_key_gen(rng) == rng_value(rng)
PRF_apply(key, epoch, index) == <<3, key, epoch, index>>

\* ---------------------------------------------------------------- chain
\* A walk whose tweaks count from the start of the walk, not of the chain.
RECURSIVE chain_from_mut_no_offset(_, _, _, _, _, _, _)
chain_from_mut_no_offset(parameter, epoch, chain_index, start_pos_in_chain, steps, current, j) ==
    IF j >= steps THEN current
    ELSE chain_from_mut_no_offset(parameter, epoch, chain_index, start_pos_in_chain,
                                  steps,
                                  TH_apply(parameter,
                                           chain_tweak(epoch, chain_index, j + 1),
                                           <<current>>),
                                  j + 1)

RECURSIVE chain_from(_, _, _, _, _, _, _)
chain_from(parameter, epoch, chain_index, start_pos_in_chain, steps, current, j) ==
    IF j >= steps THEN current
    ELSE chain_from(parameter, epoch, chain_index, start_pos_in_chain, steps,
                    TH_apply(parameter,
                             chain_tweak(epoch, chain_index, start_pos_in_chain + j + 1),
                             <<current>>),
                    j + 1)

chain(parameter, epoch, chain_index, start_pos_in_chain, steps, start) ==
    chain_from(parameter, epoch, chain_index, start_pos_in_chain, steps, start, 0)

\* --------------------------------------------------------- message hash
\* Stand-in for the first MH_BYTES bytes of
\* SHA3-256(randomness || parameter || [0x02] || epoch || message).
Digest(parameter, epoch, randomness, message) ==
    [k \in 1..MH_BYTES |->
        (randomness.id * 37 + parameter * 101 + epoch * 13 + message.id * 151
            + k * 29 + 90) % 256]

RECURSIVE drain_chunks(_, _, _, _)
drain_chunks(buf, buf_bits, chunk_size, out) ==
    IF buf_bits >= chunk_size
    THEN drain_chunks(buf \div (2 ^ chunk_size), buf_bits - chunk_size, chunk_size,
                      Append(out, buf % (2 ^ chunk_size)))
    ELSE [buf |-> buf, buf_bits |-> buf_bits, out |-> out]

RECURSIVE bytes_to_chunks_loop(_, _, _, _, _)
bytes_to_chunks_loop(data, chunk_size, buf, buf_bits, out) ==
    IF data = <<>> THEN out
    ELSE LET d == drain_chunks(buf + Head(data) * (2 ^ buf_bits), buf_bits + 8,
                               chunk_size, out)
         IN  bytes_to_chunks_loop(Tail(data), chunk_size, d.buf, d.buf_bits, d.out)

bytes_to_chunks(data, chunk_size) == bytes_to_chunks_loop(data, chunk_size, 0, 0, <<>>)

\* ShaMessageHash.apply: the assertions, then the chunked digest.  The
\* parameter always has parameter_len bytes here; epochs stay far below 2^32.
MH_apply(parameter, epoch, randomness, message) ==
    IF randomness.len # RAND_LEN \/ message.len # MESSAGE_LENGTH \/ epoch < 0
    THEN [status |-> "AssertionError", chunks |-> <<>>]
    ELSE LET nbytes == (NUM_CHUNKS * CHUNK_SIZE) \div 8
         IN  [status |-> "ok",
              chunks |-> bytes_to_chunks(
                  SubSeq(Digest(parameter, epoch, randomness, message), 1, nbytes),
                  CHUNK_SIZE)]

\* ------------------------------------------------- incomparable encoding
\* A digit loop that never divides s by the base.
RECURSIVE checksum_digits_mut_no_divide(_, _)
checksum_digits_mut_no_divide(s, n) ==
    IF n = 0 THEN <<>> ELSE <<s % BASE>> \o checksum_digits_mut_no_divide(s, n - 1)

RECURSIVE checksum_digits(_, _)
checksum_digits(s, n) ==
    IF n = 0 THEN <<>> ELSE <<s % BASE>> \o checksum_digits(s \div BASE, n - 1)

\* A checksum emitted most significant digit first.
_checksum_chunks_mut_msb(msg_chunks) ==
    LET cs == checksum_digits(
                  SumSeq([i \in 1..Len(msg_chunks) |-> (BASE - 1) - msg_chunks[i]]),
                  NUM_CHECKSUM_CHAINS)
    IN  [k \in 1..Len(cs) |-> cs[Len(cs) + 1 - k]]

\* A checksum of the plain digit sum.
_checksum_chunks_mut_plain_sum(msg_chunks) ==
    checksum_digits(SumSeq(msg_chunks), NUM_CHECKSUM_CHAINS)

_checksum_chunks(msg_chunks) ==
    checksum_digits(SumSeq([i \in 1..Len(msg_chunks) |-> (BASE - 1) - msg_chunks[i]]),
                    NUM_CHECKSUM_CHAINS)

\* WinternitzEncoding.apply from the chunks the message hash returned, for
\* an encoding of num_chains message chains.
WinternitzEncoding_codeword(num_chains, msg_chunks) ==
    IF Len(msg_chunks) # num_chains
       \/ \E i \in 1..Len(msg_chunks) : ~(0 <= msg_chunks[i] /\ msg_chunks[i] < BASE)
    THEN [status |-> "AssertionError", x |-> <<>>]
    ELSE [status |-> "ok", x |-> msg_chunks \o _checksum_chunks(msg_chunks)]

WinternitzEncoding_apply(parameter, epoch, randomness, message) ==
    LET mh == MH_apply(parameter, epoch, randomness, message)
    IN  IF mh.status # "ok" THEN [status |-> mh.status, x |-> <<>>]
        ELSE WinternitzEncoding_codeword(NUM_CHUNKS, mh.chunks)

TargetSumEncoding_apply(parameter, epoch, randomness, message) ==
    LET mh == MH_apply(parameter, epoch, randomness, message)
    IN  IF mh.status # "ok" THEN [status |-> mh.status, x |-> <<>>]
        ELSE IF Len(mh.chunks) # NUM_CHUNKS
                \/ \E i \in 1..Len(mh.chunks) : ~(0 <= mh.chunks[i] /\ mh.chunks[i] < BASE)
        THEN [status |-> "AssertionError", x |-> <<>>]
        ELSE [status |-> "ok", x |-> mh.chunks]

\* BasicWinternitzEncoding(n0, w_exp): the checked constructor.
RECURSIVE bit_length(_)
bit_length(n) == IF n = 0 THEN 0 ELSE 1 + bit_length(n \div 2)

BasicWinternitzEncoding_new(n0, w_exp) ==
    LET base == 2 ^ w_exp
        n1 == (bit_length(n0 * (base - 1)) + w_exp - 1) \div w_exp
    IN  IF w_exp \notin {1, 2, 4, 8} \/ n0 + n1 > 2 ^ 8
        THEN [status |-> "ValueError", n0 |-> n0, w_exp |-> w_exp, base |-> base,
              n1 |-> 0, v |-> 0]
        ELSE [status |-> "ok", n0 |-> n0, w_exp |-> w_exp, base |-> base,
              n1 |-> n1, v |-> n0 + n1]

\* BasicWinternitzEncoding.encode: the digit loop, value is [cs, checksum].
RECURSIVE basic_checksum_loop(_, _, _, _)
basic_checksum_loop(checksum, base, n, cs) ==
    IF n = 0 THEN [cs |-> cs, checksum |-> checksum]
    ELSE basic_checksum_loop(checksum \div base, base, n - 1,
                             Append(cs, checksum % base))

Reversed(s) == [k \in 1..Len(s) |-> s[Len(s) + 1 - k]]

\* BasicWinternitzEncoding.encode from the n0 digits sliced off the SHAKE
\* stream of the message.
basic_encode_result(digits, r) ==
    IF r.checksum # 0 THEN [status |-> "EncodingError", x |-> <<>>]
    ELSE [status |-> "ok", x |-> digits \o Reversed(r.cs)]

BasicWinternitzEncoding_encode(enc, digits) ==
    basic_encode_result(digits,
        basic_checksum_loop(enc.n0 * (enc.base - 1) - SumSeq(digits), enc.base,
                            enc.n1, <<>>))

\* TargetSumWinternitzEncoding.encode from the v digest bytes of the message.
TargetSumWinternitzEncoding_encode_mut_no_check(v, base, target, digest) ==
    [status |-> "ok", x |-> [i \in 1..Len(digest) |-> digest[i] % base]]

TargetSumWinternitzEncoding_encode(v, base, target, digest) ==
    LET x == [i \in 1..Len(digest) |-> digest[i] % base]
    IN  IF SumSeq(x) # target THEN [status |-> "EncodingError", x |-> <<>>]
        ELSE [status |-> "ok", x |-> x]

\* TargetSumWinternitzEncoding.encode_with_last_digit_adjustment from the
\* v - 1 digest bytes of the message.
encode_with_last_digit_adjustment(v, base, target, digest) ==
    LET x == [i \in 1..Len(digest) |-> digest[i] % base]
        last == target - SumSeq(x)
    IN  IF v <= 0 THEN [status |-> "EncodingError", x |-> <<>>]
        ELSE IF v = 1
        THEN IF 0 <= target /\ target < base THEN [status |-> "ok", x |-> <<target>>]
             ELSE [status |-> "EncodingError", x |-> <<>>]
        ELSE IF 0 <= last /\ last < base THEN [status |-> "ok", x |-> Append(x, last)]
        ELSE [status |-> "EncodingError", x |-> <<>>]

\* IE.DIMENSION and IE.encode(parameter, message, randomness, epoch) of the
\* configured encoding ie \in {"winternitz", "target_sum"}.
DIMENSION(ie) ==
    IF ie = "winternitz" THEN NUM_CHUNKS + NUM_CHECKSUM_CHAINS ELSE NUM_CHUNKS

IE_encode(ie, parameter, message, randomness, epoch) ==
    IF ie = "winternitz"
    THEN WinternitzEncoding_apply(parameter, epoch, randomness, message)
    ELSE TargetSumEncoding_apply(parameter, epoch, randomness, message)

\* ------------------------------------------------------------ hash tree
\* Python list indexing: a negative index counts from the end.
PyIndexOk(seq, i) == -Len(seq) <= i /\ i < Len(seq)
PyIndex(seq, i) == IF i >= 0 THEN seq[i + 1] ELSE seq[Len(seq) + i + 1]

\* A layer aligned down to an even start index without the front padding node.
_get_padded_layer_mut_no_front(rng, nodes, start_index) ==
    LET end_index == start_index + Len(nodes) - 1
        back == end_index % 2 = 0
    IN  [layer |-> [start_index |-> start_index - (start_index % 2),
                    nodes |-> nodes \o (IF back THEN <<rand_domain(rng)>> ELSE <<>>)],
         rng |-> IF back THEN rng_next(rng) ELSE rng]

\* A layer padded in front only.
_get_padded_layer_mut_no_back(rng, nodes, start_index) ==
    LET front == start_index % 2 = 1
    IN  [layer |-> [start_index |-> start_index - (start_index % 2),
                    nodes |-> (IF front THEN <<rand_domain(rng)>> ELSE <<>>) \o nodes],
         rng |-> IF front THEN rng_next(rng) ELSE rng]

\* A layer is [start_index, nodes]; the result carries the advanced rng.
_get_padded_layer(rng, nodes, start_index) ==
    LET end_index == start_index + Len(nodes) - 1
        front == start_index % 2 = 1
        rng1 == IF front THEN rng_next(rng) ELSE rng
        back == end_index % 2 = 0
        rng2 == IF back THEN rng_next(rng1) ELSE rng1
    IN  [layer |-> [start_index |-> start_index - (start_index % 2),
                    nodes |-> (IF front THEN <<rand_domain(rng)>> ELSE <<>>)
                              \o nodes
                              \o (IF back THEN <<rand_domain(rng1)>> ELSE <<>>)],
         rng |-> rng2]

\* Parents tweaked with their offset in the layer, not their index in the level.
parents_of_mut_local_index(parameter, level, current_layer) ==
    [k \in 1..(Len(current_layer.nodes) \div 2) |->
        TH_apply(parameter, tree_tweak(level + 1, k - 1),
                 <<current_layer.nodes[2 * k - 1], current_layer.nodes[2 * k]>>)]

\* The parents of one layer, left to right.
parents_of(parameter, level, current_layer) ==
    [k \in 1..(Len(current_layer.nodes) \div 2) |->
        TH_apply(parameter,
                 tree_tweak(level + 1, (k - 1) + current_layer.start_index \div 2),
                 <<current_layer.nodes[2 * k - 1], current_layer.nodes[2 * k]>>)]

RECURSIVE build_layers(_, _, _, _, _)
build_layers(rng, depth, parameter, layers, level) ==
    IF level >= depth THEN layers
    ELSE LET current_layer == layers[level + 1]
             padded == _get_padded_layer(rng,
                                         parents_of(parameter, level, current_layer),
                                         current_layer.start_index \div 2)
         IN  build_layers(padded.rng, depth, parameter,
                          Append(layers, padded.layer), level + 1)

\* HashTreeBuilder.new: a tree is [depth, layers].
HashTreeBuilder_new(rng, depth, start_index, parameter, leaf_hashes) ==
    IF ~(start_index + Len(leaf_hashes) <= 2 ^ depth)
    THEN [status |-> "AssertionError", tree |-> [depth |-> depth, layers |-> <<>>]]
    ELSE LET padded == _get_padded_layer(rng, leaf_hashes, start_index)
         IN  [status |-> "ok",
              tree |-> [depth |-> depth,
                        layers |-> build_layers(padded.rng, depth, parameter,
                                                <<padded.layer>>, 0)]]

HashTreeBuilder_root(tree) ==
    IF tree.layers = <<>> THEN [status |-> "AssertionError", root |-> <<>>]
    ELSE IF tree.layers[Len(tree.layers)].nodes = <<>>
    THEN [status |-> "IndexError", root |-> <<>>]
    ELSE [status |-> "ok", root |-> tree.layers[Len(tree.layers)].nodes[1]]

RECURSIVE path_loop(_, _, _, _)
path_loop(tree, current_position, l, co_path) ==
    IF l >= tree.depth THEN [status |-> "ok", co_path |-> co_path]
    ELSE LET sibling_position ==
                 IF current_position % 2 = 0 THEN current_position + 1
                 ELSE current_position - 1
             sibling_pos_in_vec == sibling_position - tree.layers[l + 1].start_index
         IN  IF ~PyIndexOk(tree.layers[l + 1].nodes, sibling_pos_in_vec)
             THEN [status |-> "IndexError", co_path |-> co_path]
             ELSE path_loop(tree, current_position \div 2, l + 1,
                            Append(co_path,
                                   PyIndex(tree.layers[l + 1].nodes, sibling_pos_in_vec)))

\* HashTreeBuilder.path: an opening is [start_index, co_path].
HashTreeBuilder_path(tree, position) ==
    IF tree.layers = <<>>
       \/ ~(position >= tree.layers[1].start_index)
       \/ ~(position < tree.layers[1].start_index + Len(tree.layers[1].nodes))
    THEN [status |-> "AssertionError", opening |-> [start_index |-> 0, co_path |-> <<>>]]
    ELSE LET r == path_loop(tree, position, 0, <<>>)
         IN  [status |-> r.status,
              opening |-> [start_index |-> tree.layers[1].start_index,
                           co_path |-> r.co_path]]

\* HashTreeBuilder.path: the index into layers[l].nodes read at level l.
sibling_pos_in_vec(tree, position, l) ==
    LET current_position == position \div (2 ^ l)
        sibling_position == IF current_position % 2 = 0 THEN current_position + 1
                            ELSE current_position - 1
    IN  sibling_position - tree.layers[l + 1].start_index

\* hash_tree_verify: `leaf` is a Python value [is_domain, v]; a list of
\* Domain values is no Domain value, TH.apply raises TypeError on it and it
\* compares unequal to every Domain value.
RECURSIVE verify_climb(_, _, _, _, _, _)
verify_climb(parameter, root, current_node, current_position, opening, l) ==
    IF l >= Len(opening.co_path)
    THEN IF current_node.is_domain /\ current_node.v = root THEN "True" ELSE "False"
    ELSE IF ~current_node.is_domain THEN "TypeError"
    ELSE LET children == IF current_position % 2 = 0
                         THEN <<current_node.v, opening.co_path[l + 1]>>
                         ELSE <<opening.co_path[l + 1], current_node.v>>
             parent_position == current_position \div 2
         IN  verify_climb(parameter, root,
                          [is_domain |-> TRUE,
                           v |-> TH_apply(parameter, tree_tweak(l + 1, parent_position),
                                          children)],
                          parent_position, opening, l + 1)

hash_tree_verify(parameter, root, position, leaf, opening) ==
    LET depth == Len(opening.co_path)
        num_leafs == 2 ^ depth
    IN  IF ~(position >= opening.start_index) THEN "AssertionError"
        ELSE IF ~(position < opening.start_index + num_leafs) THEN "AssertionError"
        ELSE verify_climb(parameter, root, leaf, position, opening, 0)

\* ------------------------------------------------------------ hypercube
\* A function that can raise returns [status, value]; a LayerInfo is
\* [sizes, prefix_sums].
Max(a, b) == IF a >= b THEN a ELSE b
Min(a, b) == IF a <= b THEN a ELSE b

RECURSIVE accumulate_from(_, _, _)
accumulate_from(s, total, out) ==
    IF s = <<>> THEN out
    ELSE accumulate_from(Tail(s), total + Head(s), Append(out, total + Head(s)))

accumulate(s) == accumulate_from(s, 0, <<>>)

\* LayerInfo.sizes_sum_in_range: sizes[start..=end] from the prefix sums.
sizes_sum_in_range(info, start, end) ==
    IF start > end THEN [status |-> "ok", value |-> 0]
    ELSE IF ~PyIndexOk(info.prefix_sums, end)
    THEN [status |-> "IndexError", value |-> 0]
    ELSE IF start > 0 /\ ~PyIndexOk(info.prefix_sums, start - 1)
    THEN [status |-> "IndexError", value |-> 0]
    ELSE [status |-> "ok",
          value |-> PyIndex(info.prefix_sums, end)
                    - (IF start > 0 THEN PyIndex(info.prefix_sums, start - 1) ELSE 0)]

\* _prepare_layer_info: the sizes of dimension v, layer by layer from d.
RECURSIVE layer_sizes_from(_, _, _, _, _)
layer_sizes_from(prev, w, max_d, d, sizes_v) ==
    IF d > max_d THEN [status |-> "ok", value |-> sizes_v]
    ELSE LET a_i_start == Max(1, w - d)
             a_i_end == Min(w, w - Max(0, (w - 1) - d))
             d_prime_start == d - (w - a_i_start)
             d_prime_end == d - (w - a_i_end)
             r == sizes_sum_in_range(prev, d_prime_start, d_prime_end)
         IN  IF a_i_start > a_i_end
             THEN layer_sizes_from(prev, w, max_d, d + 1, Append(sizes_v, 0))
             ELSE IF r.status # "ok" THEN [status |-> r.status, value |-> sizes_v]
             ELSE layer_sizes_from(prev, w, max_d, d + 1, Append(sizes_v, r.value))

\* _prepare_layer_info: the loop over v = 2 .. MAX_DIMENSION.
RECURSIVE prepare_from(_, _, _)
prepare_from(w, all_info, v) ==
    IF v > MAX_DIMENSION THEN [status |-> "ok", value |-> all_info]
    ELSE LET row == layer_sizes_from(all_info[v], w, v * (w - 1), 0, <<>>)
         IN  IF row.status # "ok" THEN [status |-> row.status, value |-> <<>>]
             ELSE prepare_from(w,
                               Append(all_info, [sizes |-> row.value,
                                                 prefix_sums |-> accumulate(row.value)]),
                               v + 1)

_prepare_layer_info(w) ==
    LET sizes1 == [k \in 1..w |-> 1]
    IN  prepare_from(w,
                     <<[sizes |-> <<1>>, prefix_sums |-> <<1>>],
                       [sizes |-> sizes1, prefix_sums |-> accumulate(sizes1)]>>,
                     2)

\* The cache holds what _prepare_layer_info returned; nothing when it raised.
_get_layer_data(w) == _prepare_layer_info(w)

\* data[v].sizes[d] for the table data that _get_layer_data returned.
layer_size_in(data, v, d) ==
    IF data.status # "ok" THEN [status |-> data.status, value |-> 0]
    ELSE IF ~PyIndexOk(data.value, v) THEN [status |-> "IndexError", value |-> 0]
    ELSE IF ~PyIndexOk(PyIndex(data.value, v).sizes, d)
    THEN [status |-> "IndexError", value |-> 0]
    ELSE [status |-> "ok", value |-> PyIndex(PyIndex(data.value, v).sizes, d)]

\* _get_layer_data(w)[v].sizes[d]
layer_size_at(w, v, d) == layer_size_in(_get_layer_data(w), v, d)

hypercube_part_size(w, v, d) == layer_size_at(w, v, d)

\* map_to_vertex: the search for a_i in a_i .. a_end, sz being the size
\* read for a_i; value is [found, x_curr].
RECURSIVE find_bucket(_, _, _, _, _, _)
find_bucket_step(w, i, d_curr, x_curr, a_i, a_end, sz) ==
    IF sz.status # "ok" THEN [status |-> sz.status, value |-> <<>>]
    ELSE IF x_curr < sz.value
    THEN [status |-> "ok", value |-> [found |-> a_i, x_curr |-> x_curr]]
    ELSE find_bucket(w, i, d_curr, x_curr - sz.value, a_i + 1, a_end)

find_bucket(w, i, d_curr, x_curr, a_i, a_end) ==
    IF a_i > a_end THEN [status |-> "AssertionError", value |-> <<>>]
    ELSE find_bucket_step(w, i, d_curr, x_curr, a_i, a_end,
                          layer_size_at(w, i - 1, d_curr - (w - a_i)))

\* map_to_vertex: the loop over i = v .. 1, b being the bucket found for i;
\* out is built last digit first.
RECURSIVE vertex_from(_, _, _, _, _)
vertex_step(w, i, d_curr, out, b) ==
    IF b.status # "ok" THEN [status |-> b.status, value |-> <<>>]
    ELSE vertex_from(w, i - 1, d_curr - (w - b.value.found), b.value.x_curr,
                     Append(out, b.value.found - 1))

vertex_from(w, i, d_curr, x_curr, out) ==
    IF i < 1 THEN [status |-> "ok", value |-> out]
    ELSE IF i = 1 THEN [status |-> "ok", value |-> Append(out, d_curr)]
    ELSE vertex_step(w, i, d_curr, out,
                     find_bucket(w, i, d_curr, x_curr,
                                 Max(1, w - d_curr),
                                 Min(w, w - Max(0, (w - 1) - d_curr))))

\* map_to_vertex: the result of the loop, reversed.
vertex_reversed(out) ==
    IF out.status # "ok" THEN out
    ELSE [status |-> "ok",
          value |-> [k \in 1..Len(out.value) |-> out.value[Len(out.value) + 1 - k]]]

\* map_to_vertex on the table data that _get_layer_data returned.
map_to_vertex_in(data, w, v, d, x) ==
    IF data.status # "ok" THEN [status |-> data.status, value |-> <<>>]
    ELSE IF ~PyIndexOk(data.value, v) THEN [status |-> "IndexError", value |-> <<>>]
    ELSE IF ~(0 <= d /\ d <= v * (w - 1))
    THEN [status |-> "AssertionError", value |-> <<>>]
    ELSE IF ~PyIndexOk(PyIndex(data.value, v).sizes, d)
    THEN [status |-> "IndexError", value |-> <<>>]
    ELSE IF ~(0 <= x /\ x < PyIndex(PyIndex(data.value, v).sizes, d))
    THEN [status |-> "AssertionError", value |-> <<>>]
    ELSE vertex_reversed(vertex_from(w, v, d, x, <<>>))

map_to_vertex(w, v, d, x) == map_to_vertex_in(_get_layer_data(w), w, v, d, x)

\* map_to_integer: the loop over i = v-1 .. 0, data being the table read in
\* iteration i.
RECURSIVE integer_from(_, _, _, _, _, _, _)
integer_step(w, v, d, a, i, x_curr, d_curr, data) ==
    LET ji == (w - 1) - a[i + 1]
        d_next == d_curr + ji
        j_start == Max(0, d_next - (w - 1) * (v - i - 1))
    IN  IF data.status # "ok" THEN [status |-> data.status, value |-> 0]
        ELSE IF ~PyIndexOk(data.value, v - i - 1)
        THEN [status |-> "IndexError", value |-> 0]
        ELSE IF sizes_sum_in_range(PyIndex(data.value, v - i - 1),
                                   d_next - ji + 1, d_next - j_start).status # "ok"
        THEN [status |-> "IndexError", value |-> 0]
        ELSE integer_from(w, v, d, a, i - 1,
                          x_curr + sizes_sum_in_range(PyIndex(data.value, v - i - 1),
                                                      d_next - ji + 1,
                                                      d_next - j_start).value,
                          d_next)

integer_from(w, v, d, a, i, x_curr, d_curr) ==
    IF i < 0
    THEN IF d_curr = d THEN [status |-> "ok", value |-> x_curr]
         ELSE [status |-> "AssertionError", value |-> 0]
    ELSE integer_step(w, v, d, a, i, x_curr, d_curr, _get_layer_data(w))

map_to_integer(w, v, d, a) ==
    IF Len(a) # v \/ SumSeq(a) # d THEN [status |-> "AssertionError", value |-> 0]
    ELSE integer_from(w, v, d, a, v - 1, 0, 0)

\* hypercube_find_layer: the binary search for the smallest d with
\* prefix_sums[d] > x, on 0-based lo and hi.
RECURSIVE find_layer_search(_, _, _, _)
find_layer_search(prefix_sums, x, lo, hi) ==
    IF lo < hi
    THEN IF prefix_sums[(lo + hi) \div 2 + 1] > x
         THEN find_layer_search(prefix_sums, x, lo, (lo + hi) \div 2)
         ELSE find_layer_search(prefix_sums, x, (lo + hi) \div 2 + 1, hi)
    ELSE lo

\* hypercube_find_layer: (d, remainder) for the d the search ended on.
find_layer_result(prefix_sums, x, d) ==
    IF d = 0 THEN [status |-> "ok", value |-> <<0, x>>]
    ELSE [status |-> "ok", value |-> <<d, x - prefix_sums[d]>>]

\* hypercube_find_layer on the table data that _get_layer_data returned.
hypercube_find_layer_in(data, v, x) ==
    IF data.status # "ok" THEN [status |-> data.status, value |-> <<>>]
    ELSE IF ~PyIndexOk(data.value, v) THEN [status |-> "IndexError", value |-> <<>>]
    ELSE find_layer_result(PyIndex(data.value, v).prefix_sums, x,
             find_layer_search(PyIndex(data.value, v).prefix_sums, x, 0,
                               Len(PyIndex(data.value, v).prefix_sums) - 1))

hypercube_find_layer(w, v, x) == hypercube_find_layer_in(_get_layer_data(w), v, x)

\* _map_into_hypercube_part: the field elements combined in base p.
RECURSIVE combine_fe(_, _)
combine_fe(fe, acc) ==
    IF fe = <<>> THEN acc
    ELSE combine_fe(Tail(fe), acc * P_BABYBEAR + (Head(fe) % P_BABYBEAR))

\* _map_into_hypercube_part: the sum of hypercube_part_size over
\* d .. final_layer, sz being the size read for d.
RECURSIVE part_size_from(_, _, _, _, _)
part_size_step(base, dimension, final_layer, d, part_size, sz) ==
    IF sz.status # "ok" THEN [status |-> sz.status, value |-> 0]
    ELSE part_size_from(base, dimension, final_layer, d + 1, part_size + sz.value)

part_size_from(base, dimension, final_layer, d, part_size) ==
    IF d > final_layer THEN [status |-> "ok", value |-> part_size]
    ELSE part_size_step(base, dimension, final_layer, d, part_size,
                        hypercube_part_size(base, dimension, d))

\* What a call of _map_into_hypercube_part computed before it returned or
\* raised.
map_part_record(status, acc, part_size, layer, vertex) ==
    [status |-> status, acc |-> acc, part_size |-> part_size,
     layer |-> layer, vertex |-> vertex]

map_part_locate(dimension, base, acc, part_size, layer) ==
    IF layer.status # "ok"
    THEN map_part_record(layer.status, acc, part_size, <<>>, <<>>)
    ELSE map_part_record(
             map_to_vertex(base, dimension, layer.value[1], layer.value[2]).status,
             acc, part_size, layer.value,
             map_to_vertex(base, dimension, layer.value[1], layer.value[2]).value)

map_part_reduce(dimension, base, acc, part_size) ==
    IF part_size.status # "ok"
    THEN map_part_record(part_size.status, acc, 0, <<>>, <<>>)
    ELSE IF part_size.value = 0
    THEN map_part_record("ZeroDivisionError", acc, 0, <<>>, <<>>)
    ELSE map_part_locate(dimension, base, acc, part_size.value,
             hypercube_find_layer(base, dimension, acc % part_size.value))

_map_into_hypercube_part(fe, dimension, base, final_layer) ==
    map_part_reduce(dimension, base, combine_fe(fe, 0),
                    part_size_from(base, dimension, final_layer, 0, 0))

\* ------------------------------------------------- SHA3 byte encodings
\* The length low-order bytes of x, least significant first.
RECURSIVE le_bytes(_, _)
le_bytes(x, length) ==
    IF length = 0 THEN <<>>
    ELSE <<x % 256>> \o le_bytes(x \div 256, length - 1)

\* What is left of x above its length low-order bytes.
RECURSIVE shifted_out(_, _)
shifted_out(x, length) ==
    IF length = 0 THEN x ELSE shifted_out(x \div 256, length - 1)

\* x.to_bytes(length, byteorder, signed=False)
int_to_bytes(x, length, byteorder) ==
    IF x < 0 \/ shifted_out(x, length) # 0
    THEN [status |-> "OverflowError", value |-> <<>>]
    ELSE [status |-> "ok",
          value |-> IF byteorder = "little" THEN le_bytes(x, length)
                    ELSE Reversed(le_bytes(x, length))]

_to_be_bytes(x, length) == int_to_bytes(x, length, "big")

\* A tree tweak that writes its position in one byte.
TreeTweak_to_bytes_mut_short_pos(level, pos_in_level) ==
    [status |-> "ok",
     value |-> <<TWEAK_SEPARATOR_FOR_TREE_HASH, level % 256, pos_in_level % 256>>]

TreeTweak_to_bytes(level, pos_in_level) ==
    IF _to_be_bytes(level, 1).status # "ok" \/ _to_be_bytes(pos_in_level, 4).status # "ok"
    THEN [status |-> "OverflowError", value |-> <<>>]
    ELSE [status |-> "ok",
          value |-> <<TWEAK_SEPARATOR_FOR_TREE_HASH>>
                        \o _to_be_bytes(level, 1).value
                        \o _to_be_bytes(pos_in_level, 4).value]

ChainTweak_to_bytes(epoch, chain_index, pos_in_chain) ==
    IF \/ _to_be_bytes(epoch, 4).status # "ok"
       \/ _to_be_bytes(chain_index, 1).status # "ok"
       \/ _to_be_bytes(pos_in_chain, 1).status # "ok"
    THEN [status |-> "OverflowError", value |-> <<>>]
    ELSE [status |-> "ok",
          value |-> <<TWEAK_SEPARATOR_FOR_CHAIN_HASH>>
                        \o _to_be_bytes(epoch, 4).value
                        \o _to_be_bytes(chain_index, 1).value
                        \o _to_be_bytes(pos_in_chain, 1).value]

\* A tweak of either class, with the fields of the other class at 0.
ShaTweak_to_bytes(tweak) ==
    IF tweak.kind = "tree" THEN TreeTweak_to_bytes(tweak.level, tweak.pos_in_level)
    ELSE ChainTweak_to_bytes(tweak.epoch, tweak.chain_index, tweak.pos_in_chain)

\* hashlib.sha3_256 over the bytes fed to it: 32 bytes that depend on every
\* byte of the input and on its order.
RECURSIVE sha3_absorb(_, _)
sha3_absorb(data, acc) ==
    IF data = <<>> THEN acc
    ELSE sha3_absorb(Tail(data), (acc * 31 + Head(data) + 7) % 65521)

sha3_256(data) == [k \in 1..32 |-> (sha3_absorb(data, 1) + 29 * k) % 256]

\* The bytes ShaMessageHash.apply feeds to the hash, with the epoch most
\* significant byte first.
ShaMessageHash_input_mut_big(parameter, epoch, randomness, message) ==
    randomness \o parameter \o <<TWEAK_SEPARATOR_FOR_MESSAGE_HASH % 256>>
        \o int_to_bytes(epoch, 4, "big").value \o message

\* The bytes ShaMessageHash.apply feeds to the hash.
ShaMessageHash_input(parameter, epoch, randomness, message) ==
    randomness \o parameter \o <<TWEAK_SEPARATOR_FOR_MESSAGE_HASH % 256>>
        \o int_to_bytes(epoch, 4, "little").value \o message

ShaMessageHash_digest(mh, input) ==
    [status |-> "ok", input |-> input,
     chunks |-> bytes_to_chunks(
                    SubSeq(sha3_256(input), 1, (mh.num_chunks * mh.chunk_size) \div 8),
                    mh.chunk_size)]

\* ShaMessageHash(parameter_len, rand_len, num_chunks, chunk_size).apply
ShaMessageHash_apply(mh, parameter, epoch, randomness, message) ==
    IF \/ Len(parameter) # mh.parameter_len
       \/ Len(randomness) # mh.rand_len
       \/ Len(message) # MESSAGE_LENGTH
       \/ epoch < 0
       \/ shifted_out(epoch, 4) # 0
    THEN [status |-> "AssertionError", input |-> <<>>, chunks |-> <<>>]
    ELSE ShaMessageHash_digest(mh,
             ShaMessageHash_input(parameter, epoch, randomness, message))

\* ------------------------------------------------ Poseidon tweak hash
\* x shifted left by n bytes.
RECURSIVE shl_bytes(_, _)
shl_bytes(x, n) == IF n = 0 THEN x ELSE shl_bytes(x * 256, n - 1)

\* The tweak_len_fe low-order digits of acc in base p.
RECURSIVE limbs_of(_, _)
limbs_of(acc, tweak_len_fe) ==
    IF tweak_len_fe = 0 THEN <<>>
    ELSE <<acc % P_BABYBEAR>> \o limbs_of(acc \div P_BABYBEAR, tweak_len_fe - 1)

encode_tree_tweak(level, pos_in_level, tweak_len_fe) ==
    IF ~(0 <= level /\ level < 256 /\ 0 <= pos_in_level)
    THEN [status |-> "AssertionError", value |-> <<>>]
    ELSE [status |-> "ok",
          value |-> limbs_of(shl_bytes(level, 5) + shl_bytes(pos_in_level, 1)
                                 + (TWEAK_SEPARATOR_FOR_TREE_HASH % 256),
                             tweak_len_fe)]

encode_chain_tweak(epoch, chain_index, pos_in_chain, tweak_len_fe) ==
    IF ~(/\ 0 <= epoch
         /\ 0 <= chain_index /\ chain_index < 256
         /\ 0 <= pos_in_chain /\ pos_in_chain < 256)
    THEN [status |-> "AssertionError", value |-> <<>>]
    ELSE [status |-> "ok",
          value |-> limbs_of(shl_bytes(epoch, 3) + shl_bytes(chain_index, 2)
                                 + shl_bytes(pos_in_chain, 1)
                                 + (TWEAK_SEPARATOR_FOR_CHAIN_HASH % 256),
                             tweak_len_fe)]

\* hashlib.shake_128: a state [n, h] of n fed items that weighs every item by
\* its position; a field element is fed as one item, a zero byte as an item
\* of its own kind.
shake_update_byte(shake) == [n |-> shake.n + 1, h |-> shake.h]

\* The weight of the elements i..j of fe_list fed after `fed` items.
RECURSIVE absorb_range(_, _, _, _)
absorb_range(fe_list, fed, i, j) ==
    IF i > j THEN 0
    ELSE IF i = j
    THEN ((((fe_list[i] % P_BABYBEAR) % 8191) + 1) * (131 * (fed + i) + 7)) % 65521
    ELSE (absorb_range(fe_list, fed, i, (i + j) \div 2)
              + absorb_range(fe_list, fed, (i + j) \div 2 + 1, j)) % 65521

shake_absorb(shake, fe_list) ==
    [n |-> shake.n + Len(fe_list),
     h |-> (shake.h + absorb_range(fe_list, shake.n, 1, Len(fe_list))) % 65521]

\* The 8-byte digest of a state, as an integer.
shake_digest(shake) == shake.h * 32749 + shake.n * 977 + 11

\* The output loop of both emulations: out_len limbs, one zero byte fed
\* after each.
RECURSIVE squeeze(_, _, _)
squeeze(shake, out_len, out) ==
    IF out_len <= 0 THEN out
    ELSE squeeze(shake_update_byte(shake), out_len - 1,
                 Append(out, shake_digest(shake) % P_BABYBEAR))

_poseidon2_sponge_emulated(fe_list, capacity_value, width, out_len) ==
    squeeze(shake_absorb([n |-> 0, h |-> 0], capacity_value \o fe_list), out_len, <<>>)

RECURSIVE Concat(_)
Concat(message) ==
    IF message = <<>> THEN <<>> ELSE Head(message) \o Concat(Tail(message))

\* The lengths of the instance, each as 4 little-endian bytes, reduced.
capacity_value_of(th) ==
    [i \in 1..16 |->
        (le_bytes(th.parameter_len, 4) \o le_bytes(th.tweak_len, 4)
             \o le_bytes(th.num_chunks, 4) \o le_bytes(th.hash_len, 4))[i]
            % P_BABYBEAR]

\* floor(log2(P_BABYBEAR))
bits_per_fe == bit_length(P_BABYBEAR) - 1

internal_consistency_check(th) ==
    /\ th.capacity < 24
    /\ th.parameter_len + th.tweak_len + th.hash_len <= 16
    /\ th.parameter_len + th.tweak_len + 2 * th.hash_len <= 24
    /\ bits_per_fe * 24 >= 4 * 32
    /\ bits_per_fe * th.tweak_len >= 32 + 8
    /\ bits_per_fe * th.tweak_len >= 32 + 8 + 8 + 8

\* tweak: <<level, pos_in_level>> or <<epoch, chain_index, pos_in_chain>>.
tweak_fe_of(th, tweak) ==
    IF Len(tweak) = 2 THEN encode_tree_tweak(tweak[1], tweak[2], th.tweak_len)
    ELSE encode_chain_tweak(tweak[1], tweak[2], tweak[3], th.tweak_len)

\* A call of PoseidonTweakHash.apply that has returned value.
poseidon_done(th, n, fe_len, width, pad_updates, value) ==
    [op |-> "poseidon", th |-> th, n |-> n, pc |-> "done", fe_len |-> fe_len,
     width |-> width, shake |-> [n |-> 0, h |-> 0], pad_updates |-> pad_updates,
     status |-> "ok", value |-> value]

\* A call of PoseidonTweakHash.apply inside _poseidon2_compress_emulated, at
\* the test of its padding loop, after pad_updates passes of the loop.
poseidon_pad(th, n, fe_len, width, shake, pad_updates) ==
    [op |-> "poseidon", th |-> th, n |-> n, pc |-> "pad", fe_len |-> fe_len,
     width |-> width, shake |-> shake, pad_updates |-> pad_updates,
     status |-> "running", value |-> <<>>]

\* _poseidon2_compress_emulated up to the test of its padding loop.
_poseidon2_compress_enter(th, n, fe_list, width) ==
    poseidon_pad(th, n, Len(fe_list), width, shake_absorb([n |-> 0, h |-> 0], fe_list), 0)

\* PoseidonTweakHash.apply up to its return or to the padding loop.
PoseidonTweakHash_apply(th, parameter, tweak, message) ==
    IF tweak_fe_of(th, tweak).status # "ok"
    THEN [poseidon_done(th, Len(message), 0, 0, 0, <<>>)
             EXCEPT !.status = "AssertionError"]
    ELSE IF Len(message) = 1
    THEN _poseidon2_compress_enter(th, 1,
             parameter \o tweak_fe_of(th, tweak).value \o message[1], 16)
    ELSE IF Len(message) = 2
    THEN _poseidon2_compress_enter(th, 2,
             parameter \o tweak_fe_of(th, tweak).value \o message[1] \o message[2], 24)
    ELSE IF Len(message) > 2
    THEN poseidon_done(th, Len(message),
             Len(parameter \o tweak_fe_of(th, tweak).value \o Concat(message)), 24, 0,
             _poseidon2_sponge_emulated(
                 parameter \o tweak_fe_of(th, tweak).value \o Concat(message),
                 capacity_value_of(th),
                 24, th.hash_len))
    ELSE poseidon_done(th, 0, 0, 0, 0, [i \in 1..th.hash_len |-> 1])

\* One test of `while len(fe_list) < width`: a pass of the loop feeds one
\* zero byte and changes neither fe_list nor width; the exit runs the output
\* loop and returns.
_poseidon2_compress_pad(c) ==
    IF c.fe_len < c.width
    THEN poseidon_pad(c.th, c.n, c.fe_len, c.width, shake_update_byte(c.shake),
                      c.pad_updates + 1)
    ELSE poseidon_done(c.th, c.n, c.fe_len, c.width, c.pad_updates,
                       squeeze(c.shake, c.th.hash_len, <<>>))

\* ------------------------------------------ hypercube layer cache, threads
\* _all_layer_info_cache = {}: no base has an entry.
EmptyCache == [w \in 2..MaxBase |-> [present |-> FALSE, table |-> <<>>]]

\* The thread after _prepare_layer_info(w) returned or raised r.
thread_prepared(th, r) ==
    IF r.status # "ok" THEN [th EXCEPT !.pc = "raised", !.status = r.status]
    ELSE [th EXCEPT !.pc = "store", !.local = r.value]

\* One step of _get_layer_data(w) in a thread: the membership test, the
\* call of _prepare_layer_info (which works on locals only), the store into
\* the cache, the read of the returned entry.
get_layer_data_thread(cache, th) ==
    IF th.pc = "test"
    THEN [th EXCEPT !.pc = IF cache[th.w].present THEN "read" ELSE "prepare"]
    ELSE IF th.pc = "prepare" THEN thread_prepared(th, _prepare_layer_info(th.w))
    ELSE IF th.pc = "store" THEN [th EXCEPT !.pc = "read"]
    ELSE [th EXCEPT !.pc = "returned", !.status = "ok",
                    !.result = cache[th.w].table]

\* The cache after that step.
get_layer_data_cache(cache, th) ==
    IF th.pc = "store"
    THEN [cache EXCEPT ![th.w] = [present |-> TRUE, table |-> th.local]]
    ELSE cache

\* ----------------------------------------------------- signature scheme
\* ie, kg, pk, sk, sg, vf: the scheme and its calls; pf: the last call of a
\* component function made on its own.
VARIABLES ie, kg, pk, sk, sg, vf, pf
vars == <<ie, kg, pk, sk, sg, vf, pf>>

NoTree == [depth |-> 0, layers |-> <<>>]
NoPK == [root |-> <<>>, parameter |-> 0]
NoSK == [prf_key |-> 0, tree |-> NoTree, parameter |-> 0,
         activation_epoch |-> 0, num_active_epochs |-> 0]
NoSig == [path |-> [start_index |-> 0, co_path |-> <<>>],
          rho |-> [len |-> 0, id |-> 0], hashes |-> <<>>]

\* key_gen: the capacity assertion.
key_gen_mut_capacity(activation_epoch, num_active_epochs) ==
    activation_epoch <= 2 ^ LOG_LIFETIME

key_gen_capacity(activation_epoch, num_active_epochs) ==
    activation_epoch + num_active_epochs <= 2 ^ LOG_LIFETIME

\* key_gen: the leaf of one epoch, the hash of its DIMENSION chain ends.
key_gen_leaf(dim, parameter, prf_key, epoch) ==
    TH_apply(parameter, tree_tweak(0, epoch),
             [i \in 1..dim |->
                 chain(parameter, epoch, i - 1, 0, BASE - 1,
                       PRF_apply(prf_key, epoch, i - 1))])

\* key_gen(activation_epoch, num_active_epochs) with the rng seeded by seed.
\* drew: whether any randomness (key material) was generated.
key_gen(dim, activation_epoch, num_active_epochs, seed) ==
    IF ~key_gen_capacity(activation_epoch, num_active_epochs)
    THEN [status |-> "AssertionError", drew |-> FALSE, pk |-> NoPK, sk |-> NoSK]
    ELSE LET rng0 == [seed |-> seed, ctr |-> 0]
             parameter == rand_parameter(rng0)
             rng1 == rng_next(rng0)
             prf_key == PRF_key_gen(rng1)
             rng2 == rng_next(rng1)
             chain_ends_hashes ==
                 [k \in 1..num_active_epochs |->
                     key_gen_leaf(dim, parameter, prf_key, activation_epoch + k - 1)]
             built == HashTreeBuilder_new(rng2, LOG_LIFETIME, activation_epoch,
                                          parameter, chain_ends_hashes)
             root == HashTreeBuilder_root(built.tree)
         IN  IF built.status # "ok"
             THEN [status |-> built.status, drew |-> TRUE, pk |-> NoPK, sk |-> NoSK]
             ELSE IF root.status # "ok"
             THEN [status |-> root.status, drew |-> TRUE, pk |-> NoPK, sk |-> NoSK]
             ELSE [status |-> "ok", drew |-> TRUE,
                   pk |-> [root |-> root.root, parameter |-> parameter],
                   sk |-> [prf_key |-> prf_key, tree |-> built.tree,
                           parameter |-> parameter,
                           activation_epoch |-> activation_epoch,
                           num_active_epochs |-> num_active_epochs]]

\* sign: the epoch validation.
sign_mut_epoch_active(secret, epoch) ==
    secret.activation_epoch <= epoch
    /\ epoch <= secret.activation_epoch + secret.num_active_epochs

sign_epoch_active(secret, epoch) ==
    LET start == secret.activation_epoch
        end == start + secret.num_active_epochs
    IN  start <= epoch /\ epoch < end

\* sign: the retry loop over the randomness rhos[1], rhos[2], ... drawn by
\* IE.rand.  tries lists every attempt made, [rho, status]; x is the codeword
\* of the accepted attempt.
RECURSIVE encode_loop(_, _, _, _, _, _, _, _)
encode_loop(enc, parameter, message, epoch, rhos, max_tries, k, tries) ==
    IF k > max_tries
    THEN [found |-> FALSE, rho |-> NoSig.rho, x |-> <<>>, tries |-> tries]
    ELSE LET curr_rho == rhos[k]
             curr == IE_encode(enc, parameter, message, curr_rho, epoch)
             tries1 == Append(tries, [rho |-> curr_rho, status |-> curr.status])
         IN  IF curr.status = "ok"
             THEN [found |-> TRUE, rho |-> curr_rho, x |-> curr.x, tries |-> tries1]
             ELSE encode_loop(enc, parameter, message, epoch, rhos, max_tries,
                              k + 1, tries1)

\* A loop that keeps drawing after an accepted attempt (no break).
RECURSIVE encode_loop_nobreak(_, _, _, _, _, _, _, _, _)
encode_loop_nobreak(enc, parameter, message, epoch, rhos, max_tries, k, tries, best) ==
    IF k > max_tries THEN [best EXCEPT !.tries = tries]
    ELSE LET curr_rho == rhos[k]
             curr == IE_encode(enc, parameter, message, curr_rho, epoch)
             tries1 == Append(tries, [rho |-> curr_rho, status |-> curr.status])
         IN  encode_loop_nobreak(enc, parameter, message, epoch, rhos, max_tries,
                 k + 1, tries1,
                 IF curr.status = "ok"
                 THEN [found |-> TRUE, rho |-> curr_rho, x |-> curr.x, tries |-> tries1]
                 ELSE best)

sign_mut_retry(enc, parameter, message, epoch, rhos) ==
    encode_loop_nobreak(enc, parameter, message, epoch, rhos, MAX_TRIES, 1, <<>>,
                        [found |-> FALSE, rho |-> NoSig.rho, x |-> <<>>, tries |-> <<>>])

sign_retry(enc, parameter, message, epoch, rhos) ==
    encode_loop(enc, parameter, message, epoch, rhos, MAX_TRIES, 1, <<>>)

\* sign(sk, epoch, message).  log lists what the call did, in order:
\* "path" (tree.path called), "rand" / "encode" (one per attempt), "chain"
\* (one per chain walked).
sign(enc, secret, epoch, message, rhos) ==
    IF ~sign_epoch_active(secret, epoch)
    THEN [status |-> "AssertionError", sig |-> NoSig, log |-> <<>>, tries |-> <<>>,
          x |-> <<>>]
    ELSE LET path == HashTreeBuilder_path(secret.tree, epoch)
             r == sign_retry(enc, secret.parameter, message, epoch, rhos)
             attempts == [k \in 1..(2 * Len(r.tries)) |->
                             IF k % 2 = 1 THEN "rand" ELSE "encode"]
             hashes == [i \in 1..DIMENSION(enc) |->
                           chain(secret.parameter, epoch, i - 1, 0, r.x[i],
                                 PRF_apply(secret.prf_key, epoch, i - 1))]
         IN  IF path.status # "ok"
             THEN [status |-> path.status, sig |-> NoSig, log |-> <<"path">>,
                   tries |-> <<>>, x |-> <<>>]
             ELSE IF ~r.found
             THEN [status |-> "UnluckyFailure", sig |-> NoSig,
                   log |-> <<"path">> \o attempts, tries |-> r.tries, x |-> <<>>]
             ELSE IF Len(r.x) < DIMENSION(enc)
             THEN [status |-> "IndexError", sig |-> NoSig,
                   log |-> <<"path">> \o attempts, tries |-> r.tries, x |-> r.x]
             ELSE [status |-> "ok",
                   sig |-> [path |-> path.opening, rho |-> r.rho, hashes |-> hashes],
                   log |-> <<"path">> \o attempts
                           \o [i \in 1..DIMENSION(enc) |-> "chain"],
                   tries |-> r.tries, x |-> r.x]

\* verify: the chain ends recomputed from the signature's hashes.
verify_ends(parameter, epoch, x, hashes) ==
    [i \in 1..Len(x) |->
        chain(parameter, epoch, i - 1, x[i], (BASE - 1) - x[i], hashes[i])]

\* verify: the value handed to hash_tree_verify as `leaf` is the list ends.
verify_leaf(parameter, epoch, ends) == [is_domain |-> FALSE, v |-> ends]

\* verify(pk, epoch, message, sig): "True", "False" or the exception raised.
verify(enc, public, epoch, message, sig) ==
    IF ~(0 <= epoch /\ epoch < 2 ^ LOG_LIFETIME) THEN "False"
    ELSE LET e == IE_encode(enc, public.parameter, message, sig.rho, epoch)
         IN  IF e.status # "ok" THEN "False"
             ELSE IF Len(e.x) # DIMENSION(enc) THEN "False"
             ELSE IF Len(sig.hashes) < Len(e.x) THEN "IndexError"
             ELSE hash_tree_verify(public.parameter, public.root, epoch,
                      verify_leaf(public.parameter, epoch,
                                  verify_ends(public.parameter, epoch, e.x, sig.hashes)),
                      sig.path)

\* sign never assigns to a field of sk: the secret key after a call.
sign_mut_sk_after(secret, epoch) ==
    IF secret.activation_epoch <= epoch
       /\ epoch < secret.activation_epoch + secret.num_active_epochs
    THEN [secret EXCEPT !.activation_epoch = epoch + 1,
                        !.num_active_epochs =
                            secret.activation_epoch + secret.num_active_epochs
                            - (epoch + 1)]
    ELSE secret

sign_sk_after(secret, epoch) == secret

\* ------------------------------------------------------------ the calls
Messages ==
    [len : {MESSAGE_LENGTH}, id : 0..MaxMsgId]
    \cup [len : {MESSAGE_LENGTH - 1}, id : {0}]

\* The values IE.rand returns on successive attempts of one sign call: a
\* fresh value per attempt, the first one being any of the values.
RhoStream(first) ==
    [k \in 1..MAX_TRIES |->
        [len |-> RAND_LEN, id |-> (first + k - 1) % (MaxRhoId + 1)]]

Forgeries == {"honest", "short_hashes", "short_path", "bad_rho", "other_rho"}

\* The signature object handed to verify: the signer's, or a variant of it.
Forge(sig, kind) ==
    CASE kind = "honest" -> sig
      [] kind = "short_hashes" ->
            [sig EXCEPT !.hashes = SubSeq(sig.hashes, 1, Len(sig.hashes) - 1)]
      [] kind = "short_path" ->
            [sig EXCEPT !.path.co_path =
                SubSeq(sig.path.co_path, 1, Len(sig.path.co_path) - 1)]
      [] kind = "bad_rho" -> [sig EXCEPT !.rho.len = RAND_LEN - 1]
      [] kind = "other_rho" -> [sig EXCEPT !.rho.id = (sig.rho.id + 1) % (MaxRhoId + 1)]

NoKeyGen == [called |-> FALSE, activation_epoch |-> 0, num_active_epochs |-> 0,
             seed |-> 0, status |-> "none", drew |-> FALSE]
NoSign == [called |-> FALSE, epoch |-> 0, message |-> [len |-> 0, id |-> 0],
           status |-> "none", sig |-> NoSig, log |-> <<>>, tries |-> <<>>,
           x |-> <<>>, repeat |-> FALSE]
NoCall == [op |-> "none"]
NoVerify == [called |-> FALSE, epoch |-> 0, message |-> [len |-> 0, id |-> 0],
             forgery |-> "none", result |-> "none"]

Init ==
    /\ ie \in {"winternitz", "target_sum"}
    /\ kg = NoKeyGen
    /\ pk = NoPK
    /\ sk = NoSK
    /\ sg = NoSign
    /\ vf = NoVerify
    /\ pf = NoCall

\* A behaviour is the life of one key pair: key_gen, a sign call, and then
\* either a second sign call for the epoch just signed or a verify call.
KeyGen ==
    /\ ~kg.called
    /\ \E activation_epoch \in 0..LIFETIME, num_active_epochs \in 0..LIFETIME,
          seed \in 0..MaxSeed :
        LET r == key_gen(DIMENSION(ie), activation_epoch, num_active_epochs, seed)
        IN /\ kg' = [called |-> TRUE, activation_epoch |-> activation_epoch,
                     num_active_epochs |-> num_active_epochs, seed |-> seed,
                     status |-> r.status, drew |-> r.drew]
           /\ pk' = r.pk
           /\ sk' = r.sk
           /\ UNCHANGED <<ie, sg, vf, pf>>

\* The effect of the call sign(sk, epoch, message) drawing rhos.
SignCall(epoch, message, rhos) ==
    LET r == sign(ie, sk, epoch, message, rhos)
    IN  /\ sg' = [called |-> TRUE, epoch |-> epoch, message |-> message,
                  status |-> r.status, sig |-> r.sig, log |-> r.log,
                  tries |-> r.tries, x |-> r.x,
                  repeat |-> sg.status = "ok" /\ sg.epoch = epoch]
        /\ sk' = sign_sk_after(sk, epoch)
        /\ UNCHANGED <<ie, kg, pk, vf, pf>>

Sign ==
    /\ kg.status = "ok"
    /\ ~sg.called
    /\ \E epoch \in 0..LIFETIME, message \in Messages, first \in 0..MaxRhoId :
        SignCall(epoch, message, RhoStream(first))

SignAgain ==
    /\ sg.status = "ok"
    /\ ~sg.repeat
    /\ ~vf.called
    /\ \E message \in Messages, first \in 0..MaxRhoId :
        SignCall(sg.epoch, message, RhoStream(first))

\* verify is called on the signer's signature with the signed message and any
\* epoch or the signed epoch and any message, or on a variant of the
\* signature with the epoch and message that were signed.
Verify ==
    /\ sg.status = "ok"
    /\ ~sg.repeat
    /\ ~vf.called
    /\ \E epoch \in (-1)..LIFETIME, message \in Messages, forgery \in Forgeries :
        /\ epoch = sg.epoch \/ message = sg.message
        /\ forgery # "honest" => (epoch = sg.epoch /\ message = sg.message)
        /\ vf' = [called |-> TRUE, epoch |-> epoch, message |-> message,
                  forgery |-> forgery,
                  result |-> verify(ie, pk, epoch, message, Forge(sg.sig, forgery))]
        /\ UNCHANGED <<ie, kg, pk, sk, sg, pf>>

Next == KeyGen \/ Sign \/ SignAgain \/ Verify

Spec == Init /\ [][Next]_vars

\* ------------------------------------------- component functions alone
\* The scheme is not in use while a component function is called on its own.
SchemeIdle ==
    /\ ie = "winternitz"
    /\ kg = NoKeyGen
    /\ pk = NoPK
    /\ sk = NoSK
    /\ sg = NoSign
    /\ vf = NoVerify

InitIdle == SchemeIdle /\ pf = NoCall

\* WinternitzEncoding.apply over a message hash of n0 chunks that returns
\* msg_chunks.
WinternitzCall ==
    /\ pf.op = "none"
    /\ \E n0 \in 1..MaxN0 :
         \E msg_chunks \in [1..n0 -> 0..(BASE - 1)] :
            LET r == WinternitzEncoding_codeword(n0, msg_chunks)
            IN  pf' = [op |-> "winternitz", msg_chunks |-> msg_chunks,
                       status |-> r.status, x |-> r.x]
    /\ UNCHANGED <<ie, kg, pk, sk, sg, vf>>

\* BasicWinternitzEncoding(n0, w_exp).encode on a message whose SHAKE stream
\* slices into digits.
basic_winternitz_record(enc, digits, r) ==
    [op |-> "basic_winternitz", enc |-> enc, digits |-> digits,
     status |-> r.status, x |-> r.x]

BasicWinternitzCall ==
    /\ pf.op = "none"
    /\ \E n0 \in 1..MaxN0, w_exp \in 1..MaxWExp :
         \E digits \in [1..n0 -> 0..(2 ^ w_exp - 1)] :
            pf' = IF BasicWinternitzEncoding_new(n0, w_exp).status # "ok"
                  THEN [op |-> "basic_winternitz_new",
                        enc |-> BasicWinternitzEncoding_new(n0, w_exp)]
                  ELSE basic_winternitz_record(
                           BasicWinternitzEncoding_new(n0, w_exp), digits,
                           BasicWinternitzEncoding_encode(
                               BasicWinternitzEncoding_new(n0, w_exp), digits))
    /\ UNCHANGED <<ie, kg, pk, sk, sg, vf>>

\* Byte values of a SHAKE-128 digest.
DigestBytes == {0, 1, 2, 7, 254}

\* TargetSumWinternitzEncoding(v, w_exp, target): encode and
\* encode_with_last_digit_adjustment on a message with the given digest; the
\* digest of v - 1 bytes is the prefix of the digest of v bytes.
target_sum_record(v, base, target, digest, strict, adjusted) ==
    [op |-> "target_sum", v |-> v, base |-> base, target |-> target,
     digest |-> digest, strict |-> strict, adjusted |-> adjusted]

TargetSumCall ==
    /\ pf.op = "none"
    /\ \E v \in 1..MaxTsV, w_exp \in 1..MaxWExp, target \in 0..TARGET_SUM :
         \E digest \in [1..v -> DigestBytes] :
            pf' = target_sum_record(v, 2 ^ w_exp, target, digest,
                      TargetSumWinternitzEncoding_encode(v, 2 ^ w_exp, target, digest),
                      encode_with_last_digit_adjustment(v, 2 ^ w_exp, target,
                                                        SubSeq(digest, 1, v - 1)))
    /\ UNCHANGED <<ie, kg, pk, sk, sg, vf>>

NextEncoding == WinternitzCall \/ BasicWinternitzCall \/ TargetSumCall

SpecEncoding == InitIdle /\ [][NextEncoding]_vars

\* ------------------------------------------------ SHA3 encodings alone
\* Byte values, epochs and positions that reach every byte of an encoding.
SampleBytes == {0, 255}
SampleEpochs == {-1, 0, 1, 255, 256, 65536, 16777216, 2147483647}

\* Messages of MESSAGE_LENGTH bytes, and one that is too short.
ShaMessages == {[i \in 1..MESSAGE_LENGTH |-> b] : b \in SampleBytes} \cup {<<1>>}

sha_message_hash_record(parameter, epoch, randomness, message, r) ==
    [op |-> "sha_message_hash", parameter |-> parameter, epoch |-> epoch,
     randomness |-> randomness, message |-> message,
     status |-> r.status, input |-> r.input, chunks |-> r.chunks]

ShaMessageHashCall ==
    /\ pf.op = "none"
    /\ \E parameter \in [1..ShaParameterLen -> SampleBytes] \cup {<<>>},
          randomness \in [1..ShaRandLen -> SampleBytes] \cup {<<>>},
          message \in ShaMessages, epoch \in SampleEpochs :
            pf' = sha_message_hash_record(parameter, epoch, randomness, message,
                      ShaMessageHash_apply(
                          [parameter_len |-> ShaParameterLen, rand_len |-> ShaRandLen,
                           num_chunks |-> NUM_CHUNKS, chunk_size |-> CHUNK_SIZE],
                          parameter, epoch, randomness, message))
    /\ UNCHANGED <<ie, kg, pk, sk, sg, vf>>

TreeTweaks ==
    {[kind |-> "tree", level |-> l, pos_in_level |-> p,
      epoch |-> 0, chain_index |-> 0, pos_in_chain |-> 0] :
        l \in {0, 1, 255, 256}, p \in {0, 1, 256, 16777216}}

ChainTweaks ==
    {[kind |-> "chain", level |-> 0, pos_in_level |-> 0,
      epoch |-> e, chain_index |-> c, pos_in_chain |-> p] :
        e \in {0, 1, 256, 16777216}, c \in {0, 1, 255, 256}, p \in {0, 1, 255}}

\* to_bytes of two tweaks.
ShaTweakCall ==
    /\ pf.op = "none"
    /\ \E a \in TreeTweaks \cup ChainTweaks, b \in TreeTweaks \cup ChainTweaks :
         pf' = [op |-> "sha_tweak", a |-> a, b |-> b,
                a_bytes |-> ShaTweak_to_bytes(a), b_bytes |-> ShaTweak_to_bytes(b)]
    /\ UNCHANGED <<ie, kg, pk, sk, sg, vf>>

SpecSha == InitIdle /\ [][ShaMessageHashCall \/ ShaTweakCall]_vars

\* ----------------------------------------------- Poseidon tweak hash alone
\* Instances (parameter_len, hash_len, tweak_len, capacity, num_chunks) that
\* pass internal_consistency_check; PoseidonTweak44 is among them.
PoseidonInstances ==
    {th \in [parameter_len : {4, 6}, hash_len : {4, 8}, tweak_len : {1, 2, 3},
             capacity : {9}, num_chunks : {128}] : internal_consistency_check(th)}

PoseidonTweaks == {<<0, 0>>, <<0, 1>>, <<0, 0, 0>>, <<1, 1, 1>>}

\* Lists of field elements of length n.
FeLists(n) == {[i \in 1..n |-> b] : b \in {0, 1}}

PoseidonApplyCall ==
    /\ pf.op = "none"
    /\ \E th \in PoseidonInstances, tweak \in PoseidonTweaks, n \in 0..MaxParts :
         \E parameter \in FeLists(th.parameter_len),
            message \in [1..n -> FeLists(th.hash_len)] :
              pf' = PoseidonTweakHash_apply(th, parameter, tweak, message)
    /\ UNCHANGED <<ie, kg, pk, sk, sg, vf>>

PoseidonPadStep ==
    /\ pf.op = "poseidon" /\ pf.pc = "pad"
    /\ pf.pad_updates < MaxPadUpdates
    /\ pf' = _poseidon2_compress_pad(pf)
    /\ UNCHANGED <<ie, kg, pk, sk, sg, vf>>

SpecPoseidon == InitIdle /\ [][PoseidonApplyCall \/ PoseidonPadStep]_vars

\* ------------------------------------------- layer cache under threads
\* MaxThreads threads call _get_layer_data, each for a base of its own, on
\* the empty cache.
GetLayerDataCalls ==
    /\ pf.op = "none"
    /\ \E ws \in [1..MaxThreads -> 2..MaxBase] :
         pf' = [op |-> "get_layer_data", cache |-> EmptyCache,
                threads |-> [t \in 1..MaxThreads |->
                                [w |-> ws[t], pc |-> "test", local |-> <<>>,
                                 status |-> "running", result |-> <<>>]]]
    /\ UNCHANGED <<ie, kg, pk, sk, sg, vf>>

\* A thread that has not returned or raised makes its next step.
GetLayerDataStep ==
    /\ pf.op = "get_layer_data"
    /\ \E t \in 1..MaxThreads :
         /\ pf.threads[t].pc \notin {"returned", "raised"}
         /\ pf' = [pf EXCEPT
                      !.cache = get_layer_data_cache(pf.cache, pf.threads[t]),
                      !.threads[t] = get_layer_data_thread(pf.cache, pf.threads[t])]
    /\ UNCHANGED <<ie, kg, pk, sk, sg, vf>>

SpecCache == InitIdle /\ [][GetLayerDataCalls \/ GetLayerDataStep]_vars

\* The leaf of position p: the hash of a chain end under the level-0 tweak.
TreeLeaf(parameter, p) ==
    TH_apply(parameter, tree_tweak(0, p), <<PRF_apply(0, p, 0)>>)

\* A Domain value that is no node of the tree under construction.
ForeignNode == rand_domain([seed |-> 1, ctr |-> 0])

\* HashTreeBuilder.new on num_leaves leaves starting at start_index, and
\* HashTreeBuilder.root of the result.
TreeNew ==
    /\ pf.op = "none"
    /\ \E depth \in 0..MaxDepth :
         \E start_index \in 0..(2 ^ depth), num_leaves \in 0..(2 ^ depth) :
            LET parameter == 0
                leaf_hashes == [k \in 1..num_leaves |->
                                   TreeLeaf(parameter, start_index + k - 1)]
                built == HashTreeBuilder_new([seed |-> 0, ctr |-> 0], depth,
                                             start_index, parameter, leaf_hashes)
            IN  pf' = [op |-> "tree", parameter |-> parameter, depth |-> depth,
                       start_index |-> start_index, leaf_hashes |-> leaf_hashes,
                       status |-> built.status, tree |-> built.tree,
                       root |-> HashTreeBuilder_root(built.tree)]
    /\ UNCHANGED <<ie, kg, pk, sk, sg, vf>>

\* The tree of the last HashTreeBuilder.new call is usable.
TreeBuilt == pf.op = "tree" /\ pf.status = "ok" /\ pf.root.status = "ok"

\* HashTreeBuilder.path for a position, then hash_tree_verify of the given
\* leaf of that position against the opening.
TreePath ==
    /\ TreeBuilt
    /\ \E position \in 0..(2 ^ pf.depth) :
            LET path == HashTreeBuilder_path(pf.tree, position)
                k == position - pf.start_index + 1
                given == k \in 1..Len(pf.leaf_hashes)
            IN  pf' = [op |-> "path", parameter |-> pf.parameter, depth |-> pf.depth,
                       start_index |-> pf.start_index,
                       leaf_hashes |-> pf.leaf_hashes, tree |-> pf.tree,
                       root |-> pf.root, position |-> position, path |-> path,
                       result |->
                           IF path.status = "ok" /\ given
                           THEN hash_tree_verify(pf.parameter, pf.root.root, position,
                                    [is_domain |-> TRUE, v |-> pf.leaf_hashes[k]],
                                    path.opening)
                           ELSE "none"]
    /\ UNCHANGED <<ie, kg, pk, sk, sg, vf>>

\* The (position, leaf, opening) triples handed to hash_tree_verify: the
\* honest triple of position q and its variants.
TreeForgeries(tree, root, q) ==
    LET honest == HashTreeBuilder_path(tree, q).opening
        depth == Len(honest.co_path)
        node(i) == PyIndex(tree.layers[1].nodes, i - tree.layers[1].start_index)
        triple(position, leaf, opening) ==
            [position |-> position, leaf |-> leaf, opening |-> opening]
        flip == IF q % 2 = 0 THEN q + 1 ELSE q - 1
    IN  {triple(q, node(q), honest)}
        \cup {triple(position, node(q), honest) :
                 position \in {flip, (q + 2 ^ depth) \div 2, q + 2 ^ depth}}
        \cup {triple(q, leaf, honest) : leaf \in {node(flip), root, ForeignNode}}
        \cup {triple(q, node(q),
                     [honest EXCEPT !.co_path = SubSeq(honest.co_path, 1, depth - 1)])}
        \cup {triple(q, node(q),
                     [honest EXCEPT !.co_path = Append(honest.co_path, ForeignNode)])}
        \cup {triple(q, root, [start_index |-> q, co_path |-> <<>>])}
        \cup {triple(q, node(q),
                     [honest EXCEPT !.co_path[l] =
                         IF @ = ForeignNode THEN root ELSE ForeignNode]) :
                 l \in 1..depth}
        \cup {triple(q, node(q), [honest EXCEPT !.start_index = flip])}

\* hash_tree_verify on a triple of TreeForgeries.
TreeVerify ==
    /\ TreeBuilt
    /\ pf.leaf_hashes # <<>>
    /\ \E k \in 1..Len(pf.leaf_hashes) :
         \E t \in TreeForgeries(pf.tree, pf.root.root, pf.start_index + k - 1) :
            pf' = [op |-> "verify", parameter |-> pf.parameter, depth |-> pf.depth,
                   start_index |-> pf.start_index, tree |-> pf.tree,
                   root |-> pf.root, position |-> t.position, leaf |-> t.leaf,
                   opening |-> t.opening,
                   result |-> hash_tree_verify(pf.parameter, pf.root.root, t.position,
                                  [is_domain |-> TRUE, v |-> t.leaf], t.opening)]
    /\ UNCHANGED <<ie, kg, pk, sk, sg, vf>>

\* chain walked a + b steps from position 0, and in two legs of a and b steps.
ChainCall ==
    /\ pf.op = "none"
    /\ \E parameter \in 0..MaxChainId, epoch \in 0..MaxChainId,
          chain_index \in 0..MaxChainId, a \in 0..MaxSteps, b \in 0..MaxSteps :
         \E start \in {PRF_apply(0, epoch, chain_index), ForeignNode} :
            LET first == chain(parameter, epoch, chain_index, 0, a, start)
            IN  pf' = [op |-> "chain", parameter |-> parameter, epoch |-> epoch,
                       chain_index |-> chain_index, a |-> a, b |-> b,
                       start |-> start,
                       none |-> chain(parameter, epoch, chain_index, 0, 0, start),
                       first |-> first,
                       second |-> chain(parameter, epoch, chain_index, a, b, first),
                       whole |-> chain(parameter, epoch, chain_index, 0, a + b, start)]
    /\ UNCHANGED <<ie, kg, pk, sk, sg, vf>>

SpecChain == InitIdle /\ [][ChainCall]_vars

\* The number of vertices of {0..w-1}^v whose digits sum to d.
LayerCount(w, v, d) ==
    Cardinality({a \in [1..v -> 0..(w - 1)] : SumSeq(a) = d})

\* hypercube_part_size(w, v, d) for a layer d of the hypercube.
PartSizeCall ==
    /\ pf.op = "none"
    /\ \E w \in 2..MaxBase, v \in 1..MaxV :
         \E d \in 0..(v * (w - 1)) :
            LET r == hypercube_part_size(w, v, d)
            IN  pf' = [op |-> "part_size", w |-> w, v |-> v, d |-> d,
                       status |-> r.status, value |-> r.value]
    /\ UNCHANGED <<ie, kg, pk, sk, sg, vf>>

\* map_to_integer(w, v, d, vertex) for the vertex map_to_vertex returned; an
\* exception of map_to_vertex propagates.
round_trip_record(w, v, d, offset, vertex) ==
    LET r == IF vertex.status # "ok" THEN [status |-> vertex.status, value |-> 0]
             ELSE map_to_integer(w, v, d, vertex.value)
    IN  [op |-> "round_trip", w |-> w, v |-> v, d |-> d, offset |-> offset,
         vertex |-> vertex, status |-> r.status, value |-> r.value]

\* map_to_integer(w, v, d, map_to_vertex(w, v, d, offset)) for an offset
\* inside layer d.
RoundTripCall ==
    /\ pf.op = "none"
    /\ \E w \in 2..MaxBase, v \in 1..MaxV :
         \E d \in 0..(v * (w - 1)) :
          \E offset \in 0..(LayerCount(w, v, d) - 1) :
            pf' = round_trip_record(w, v, d, offset, map_to_vertex(w, v, d, offset))
    /\ UNCHANGED <<ie, kg, pk, sk, sg, vf>>

\* Poseidon outputs: one or two field elements.
FeSamples == {<<a>> : a \in 0..MaxAcc} \cup {<<1, a>> : a \in 0..1}

\* _map_into_hypercube_part(fe, dimension, base, final_layer) for a final
\* layer of the hypercube.
MapIntoHypercubeCall ==
    /\ pf.op = "none"
    /\ \E base \in 2..MaxBase, dimension \in 1..MaxV, fe \in FeSamples :
         \E final_layer \in 0..(dimension * (base - 1)) :
            pf' = [op |-> "map_into_hypercube", fe |-> fe, dimension |-> dimension,
                   base |-> base, final_layer |-> final_layer,
                   r |-> _map_into_hypercube_part(fe, dimension, base, final_layer)]
    /\ UNCHANGED <<ie, kg, pk, sk, sg, vf>>

\* map_to_vertex(w, v, d, .) for two offsets inside layer d.
VertexPairCall ==
    /\ pf.op = "none"
    /\ \E w \in 2..MaxBase, v \in 1..MaxV :
         \E d \in 0..(v * (w - 1)) :
          \E x1 \in 0..(LayerCount(w, v, d) - 1), x2 \in 0..(LayerCount(w, v, d) - 1) :
            pf' = [op |-> "vertex_pair", w |-> w, v |-> v, d |-> d,
                   x1 |-> x1, x2 |-> x2,
                   a1 |-> map_to_vertex(w, v, d, x1),
                   a2 |-> map_to_vertex(w, v, d, x2)]
    /\ UNCHANGED <<ie, kg, pk, sk, sg, vf>>

NextHypercube ==
    PartSizeCall \/ RoundTripCall \/ MapIntoHypercubeCall \/ VertexPairCall

SpecHypercube == InitIdle /\ [][NextHypercube]_vars

NextTree == TreeNew \/ TreePath \/ TreeVerify

SpecTree == InitIdle /\ [][NextTree]_vars

\* ================================================================ claims
\* The verify call checks the signer's own signature.
HonestVerify == vf.called /\ vf.forgery = "honest"

\* The active range of the key pair key_gen returned, from its arguments.
ActiveEpoch(e) ==
    kg.activation_epoch <= e /\ e < kg.activation_epoch + kg.num_active_epochs

\* C1: for a key pair from key_gen, an active epoch e and a 32-byte message m,
\* verify(pk, e, m, sign(sk, e, m)) returns true.
C1_SignThenVerify ==
    (HonestVerify /\ vf.epoch = sg.epoch /\ vf.message = sg.message)
        => vf.result = "True"

\* C2: epoch binding: a signature produced for (e, m) is rejected, with the
\* result false, by verify(pk, e', m, sig) for every epoch e' # e.
C2_EpochBinding ==
    (HonestVerify /\ vf.message = sg.message /\ vf.epoch # sg.epoch)
        => vf.result = "False"

\* C3: message binding: a signature produced for (e, m) is rejected, with the
\* result false, by verify(pk, e, m', sig) for every 32-byte m' # m whose
\* encoding under sig.rho differs from that of m.
C3_MessageBinding ==
    (/\ HonestVerify
     /\ vf.epoch = sg.epoch
     /\ vf.message # sg.message
     /\ vf.message.len = MESSAGE_LENGTH
     /\ IE_encode(ie, pk.parameter, vf.message, sg.sig.rho, vf.epoch).x # sg.x)
        => vf.result = "False"

\* C4: verify never raises: every call returns a boolean.
C4_VerifyNeverRaises ==
    vf.called => vf.result \in {"True", "False"}

\* C5: sign with a message that is not 32 bytes long (here for an epoch the
\* key is active for) fails with InvalidMessageLength, makes no encoding
\* attempt and is not reported as UnluckyFailure.
C5_InvalidMessageLength ==
    (sg.called /\ ActiveEpoch(sg.epoch) /\ sg.message.len # MESSAGE_LENGTH)
        => (sg.status = "InvalidMessageLength" /\ sg.tries = <<>>)

\* C6: sign returns a signature only for an epoch of the active range; for
\* any other epoch it fails before computing a path, drawing randomness or
\* walking a chain, and returns no signature.
C6_SignOnlyActiveEpoch ==
    sg.called =>
        /\ (sg.status = "ok" => ActiveEpoch(sg.epoch))
        /\ (~ActiveEpoch(sg.epoch) =>
                sg.status # "ok" /\ sg.log = <<>> /\ sg.sig = NoSig)

C6_Witness ==
    sg.called /\ ~ActiveEpoch(sg.epoch) /\ sg.status = "AssertionError"

\* C7: the retry loop of sign makes at most MAX_TRIES attempts, each with a
\* freshly drawn rho and the same parameter, message and epoch; it stops at
\* the first accepted attempt and builds the signature from exactly that rho
\* and its codeword; it raises UnluckyFailure iff all MAX_TRIES attempts are
\* rejected.
C7_BoundedRetry ==
    (sg.called /\ ActiveEpoch(sg.epoch)) =>
        LET n == Len(sg.tries)
            enc(k) == IE_encode(ie, sk.parameter, sg.message, sg.tries[k].rho, sg.epoch)
        IN  /\ n >= 1 /\ n <= MAX_TRIES
            /\ sg.log = <<"path">>
                    \o [k \in 1..(2 * n) |-> IF k % 2 = 1 THEN "rand" ELSE "encode"]
                    \o (IF sg.status = "ok"
                        THEN [i \in 1..DIMENSION(ie) |-> "chain"] ELSE <<>>)
            /\ \A k \in 1..n : sg.tries[k].status = enc(k).status
            /\ \A k \in 1..(n - 1) : sg.tries[k].status # "ok"
            /\ sg.status \in {"ok", "UnluckyFailure"}
            /\ (sg.status = "ok" =>
                    /\ sg.tries[n].status = "ok"
                    /\ sg.sig.rho = sg.tries[n].rho
                    /\ sg.x = enc(n).x
                    /\ \A i \in 1..DIMENSION(ie) :
                          sg.sig.hashes[i] =
                              chain(sk.parameter, sg.epoch, i - 1, 0, sg.x[i],
                                    PRF_apply(sk.prf_key, sg.epoch, i - 1)))
            /\ (sg.status = "UnluckyFailure" <=>
                    (n = MAX_TRIES /\ \A k \in 1..n : sg.tries[k].status # "ok"))

C7_Witness ==
    sg.called /\ sg.status = "UnluckyFailure" /\ Len(sg.tries) = MAX_TRIES

\* C8: sign leaves every field of sk unchanged, whether it succeeds or
\* fails, and keeps no record of used epochs: a second sign call for an
\* already signed epoch is accepted like the first (and with the same message
\* and randomness gives the same signature).
C8_SignStateless ==
    [][/\ (kg.called /\ kg' = kg) => sk' = sk
       /\ (sg.status = "ok" /\ sg'.called /\ sg'.epoch = sg.epoch /\ vf' = vf) =>
            /\ (sg'.message.len = MESSAGE_LENGTH => sg'.status = "ok")
            /\ ((sg'.message = sg.message /\ sg'.tries = sg.tries) =>
                    sg'.sig = sg.sig)]_vars

C8_Witness ==
    sg.called /\ sg.repeat /\ sg.status = "ok"

\* C9: key_gen returns a key pair only if activation_epoch +
\* num_active_epochs <= 2^LOG_LIFETIME and otherwise fails before generating
\* key material; the tree of a secret key has depth LOG_LIFETIME and stores
\* the leaf of every active epoch e at layer-0 index e.
C9_KeyGenCapacity ==
    kg.called =>
        /\ (kg.activation_epoch + kg.num_active_epochs > 2 ^ LOG_LIFETIME =>
                kg.status # "ok" /\ ~kg.drew)
        /\ (kg.status = "ok" =>
                /\ kg.activation_epoch + kg.num_active_epochs <= 2 ^ LOG_LIFETIME
                /\ sk.activation_epoch = kg.activation_epoch
                /\ sk.num_active_epochs = kg.num_active_epochs
                /\ sk.tree.depth = LOG_LIFETIME
                /\ Len(sk.tree.layers) = LOG_LIFETIME + 1
                /\ \A e \in 0..LIFETIME :
                      ActiveEpoch(e) =>
                        LET i == e - sk.tree.layers[1].start_index
                        IN  /\ 0 <= i /\ i < Len(sk.tree.layers[1].nodes)
                            /\ sk.tree.layers[1].nodes[i + 1] =
                                   key_gen_leaf(DIMENSION(ie), sk.parameter,
                                                sk.prf_key, e))

C9_Witness ==
    /\ kg.called /\ kg.status = "ok"
    /\ kg.activation_epoch % 2 = 1 /\ kg.num_active_epochs >= 2

\* C10: with the target-sum encoding, every codeword the encoding accepts
\* (every codeword a signature is built on) sums to exactly TARGET_SUM.
C10_TargetSum ==
    (ie = "target_sum" /\ sg.called /\ sg.status = "ok")
        => SumSeq(sg.x) = TARGET_SUM

\* The value of a digit list, least significant digit first.
RECURSIVE DigitsValue(_)
DigitsValue(ds) == IF ds = <<>> THEN 0 ELSE Head(ds) + BASE * DigitsValue(Tail(ds))

\* The checksum part of a Winternitz codeword over n0 message chunks.
ChecksumPart(x, n0) == SubSeq(x, n0 + 1, Len(x))

\* C11 (as stated): for the Winternitz encoding the sum of all V = N0 + N1
\* digits of the codeword equals N0 * (B - 1), for every chunk vector.
C11_DigitSum ==
    (pf.op = "winternitz" /\ pf.status = "ok")
        => SumSeq(pf.x) = Len(pf.msg_chunks) * (BASE - 1)

\* C11 (amended): the codeword has N0 + N1 digits in [0, B), its first N0 are
\* the message chunks, and the value of its N1 checksum digits (least
\* significant first) is (N0 * (B - 1) - sum of message chunks) mod B^N1; so
\* when B^N1 > N0 * (B - 1), message digit sum + checksum value = N0 * (B - 1).
C11_ChecksumValue ==
    (pf.op = "winternitz" /\ pf.status = "ok") =>
        LET n0 == Len(pf.msg_chunks)
            cs == ChecksumPart(pf.x, n0)
        IN  /\ Len(pf.x) = n0 + NUM_CHECKSUM_CHAINS
            /\ SubSeq(pf.x, 1, n0) = pf.msg_chunks
            /\ \A i \in 1..Len(pf.x) : 0 <= pf.x[i] /\ pf.x[i] < BASE
            /\ DigitsValue(cs) =
                   (n0 * (BASE - 1) - SumSeq(pf.msg_chunks)) % (BASE ^ NUM_CHECKSUM_CHAINS)
            /\ (BASE ^ NUM_CHECKSUM_CHAINS > n0 * (BASE - 1) =>
                   SumSeq(pf.msg_chunks) + DigitsValue(cs) = n0 * (BASE - 1))

\* A codeword whose checksum needs more than one digit.
C11_Witness ==
    /\ pf.op = "winternitz" /\ pf.status = "ok"
    /\ Len(pf.msg_chunks) * (BASE - 1) - SumSeq(pf.msg_chunks) >= BASE
    /\ \E k \in 2..NUM_CHECKSUM_CHAINS : pf.x[Len(pf.msg_chunks) + k] > 0

\* x and y are pointwise incomparable: x is below y somewhere and above it
\* somewhere else.
Incomparable(x, y) ==
    /\ \E i \in 1..Len(x) : x[i] < y[i]
    /\ \E j \in 1..Len(x) : x[j] > y[j]

\* C12: Winternitz incomparability: when N1 * w >= ceil(log2(N0 * (B - 1) + 1)),
\* i.e. B^N1 >= N0 * (B - 1) + 1, the codewords of two distinct chunk vectors
\* of [0, B)^N0 are pointwise incomparable.
C12_Incomparable ==
    (/\ pf.op = "winternitz" /\ pf.status = "ok"
     /\ BASE ^ NUM_CHECKSUM_CHAINS >= Len(pf.msg_chunks) * (BASE - 1) + 1) =>
        \A c \in [1..Len(pf.msg_chunks) -> 0..(BASE - 1)] :
            c # pf.msg_chunks =>
                Incomparable(pf.x, WinternitzEncoding_codeword(Len(c), c).x)

\* A chunk vector that another chunk vector dominates pointwise, at the
\* largest N0 of the model.
C12_Witness ==
    /\ pf.op = "winternitz" /\ pf.status = "ok"
    /\ Len(pf.msg_chunks) = MaxN0
    /\ BASE ^ NUM_CHECKSUM_CHAINS >= Len(pf.msg_chunks) * (BASE - 1) + 1
    /\ \E i \in 1..Len(pf.msg_chunks) : pf.msg_chunks[i] < BASE - 1

\* The position of the last path call is one of the given leaves.
ActivePosition ==
    pf.position - pf.start_index + 1 \in 1..Len(pf.leaf_hashes)

\* C13: for the tree HashTreeBuilder.new built on a non-empty leaf list with
\* start_index + len(leaves) <= 2^D and every position p of a given leaf,
\* hash_tree_verify(parameter, root(tree), p, leaf_p, path(tree, p)) is true.
C13_PathVerifyInverse ==
    (pf.op = "path" /\ ActivePosition)
        => (pf.path.status = "ok" /\ pf.result = "True")

\* The example of the claim: depth 3, leaves at positions 3 and 4.
C13_Witness ==
    /\ pf.op = "path" /\ pf.depth = 3 /\ pf.start_index = 3
    /\ Len(pf.leaf_hashes) = 2 /\ pf.position = 4 /\ pf.result = "True"

\* C14: for every tree HashTreeBuilder.new built and every position of a
\* given leaf, path returns exactly D = depth siblings, and the index
\* ((position >> l) XOR 1) - layers[l].start_index it reads at level l lies
\* in 0 .. len(layers[l].nodes) - 1.
C14_PathLength ==
    (pf.op = "path" /\ ActivePosition) =>
        /\ pf.path.status = "ok"
        /\ Len(pf.path.opening.co_path) = pf.depth
        /\ \A l \in 0..(pf.depth - 1) :
              LET i == sibling_pos_in_vec(pf.tree, pf.position, l)
              IN  /\ 0 <= i /\ i <= Len(pf.tree.layers[l + 1].nodes) - 1
                  /\ pf.path.opening.co_path[l + 1] = pf.tree.layers[l + 1].nodes[i + 1]

\* A path that reads a front padding node above layer 0.
C14_Witness ==
    /\ pf.op = "path" /\ ActivePosition /\ pf.depth = MaxDepth
    /\ pf.path.status = "ok"
    /\ \E l \in 1..(pf.depth - 1) :
          /\ sibling_pos_in_vec(pf.tree, pf.position, l) = 0
          /\ pf.path.opening.co_path[l + 1][1] = 4

\* C19: Merkle soundness: hash_tree_verify(parameter, root, position, leaf,
\* opening) is true for the root of a tree of depth D only if
\* len(opening.co_path) = D, leaf is the tree's layer-0 node at index
\* position, and every co_path[l] is the sibling the tree stores at level l.
C19_MerkleSoundness ==
    (pf.op = "verify" /\ pf.result = "True") =>
        /\ Len(pf.opening.co_path) = pf.depth
        /\ LET i == pf.position - pf.tree.layers[1].start_index
           IN  /\ 0 <= i /\ i < Len(pf.tree.layers[1].nodes)
               /\ pf.leaf = pf.tree.layers[1].nodes[i + 1]
        /\ \A l \in 0..(pf.depth - 1) :
              LET i == sibling_pos_in_vec(pf.tree, pf.position, l)
              IN  /\ 0 <= i /\ i < Len(pf.tree.layers[l + 1].nodes)
                  /\ l + 1 <= Len(pf.opening.co_path)
                  /\ pf.opening.co_path[l + 1] = pf.tree.layers[l + 1].nodes[i + 1]

\* C20: in every tree HashTreeBuilder.new built with depth D on a non-empty
\* leaf list, the root layer layers[D] contains exactly one node, the root.
C20_RootLayerSingleNode ==
    (pf.op = "tree" /\ pf.status = "ok" /\ pf.leaf_hashes # <<>>) =>
        /\ Len(pf.tree.layers) = pf.depth + 1
        /\ pf.tree.layers[pf.depth + 1].nodes = <<pf.root.root>>

\* C17: chain composition: chain(start_pos = 0, steps = 0, s) = s and
\* chain(start_pos = 0, steps = a + b, s) =
\* chain(start_pos = a, steps = b, chain(start_pos = 0, steps = a, s)); so the
\* tip verify recomputes from position x[i] with B - 1 - x[i] steps is the tip
\* key_gen computed with B - 1 steps from the PRF start.
C17_ChainComposition ==
    pf.op = "chain" =>
        /\ pf.none = pf.start
        /\ pf.whole = pf.second

\* The case of verify: a revealed element inside a chain of B - 1 steps that
\* starts at a PRF output.
C17_Witness ==
    /\ pf.op = "chain" /\ pf.a >= 1 /\ pf.b >= 1 /\ pf.a + pf.b = BASE - 1
    /\ pf.start = PRF_apply(0, pf.epoch, pf.chain_index)
    /\ pf.whole = pf.second

\* C18: verify hashes the V recomputed chain ends into one leaf,
\* leaf = TH.apply(parameter, tree_tweak(0, epoch), [end_0 .. end_{V-1}]),
\* before the Merkle check, so that for an honest signature the value that
\* enters the Merkle climb is the layer-0 node key_gen stored for the epoch.
C18_VerifyHashesLeaf ==
    (HonestVerify /\ vf.epoch = sg.epoch /\ vf.message = sg.message) =>
        LET ends == verify_ends(pk.parameter, vf.epoch, sg.x, sg.sig.hashes)
            leaf == verify_leaf(pk.parameter, vf.epoch, ends)
            i == vf.epoch - sk.tree.layers[1].start_index
        IN  /\ leaf.is_domain
            /\ leaf.v = TH_apply(pk.parameter, tree_tweak(0, vf.epoch), ends)
            /\ leaf.v = sk.tree.layers[1].nodes[i + 1]

\* C15: hypercube round trip: for every base B >= 2, dimension V >= 1, layer
\* d in 0..V*(B-1) and offset below the size of layer d,
\* map_to_integer(B, V, d, map_to_vertex(B, V, d, offset)) completes without
\* an assertion failure and returns offset.
C15_HypercubeRoundTrip ==
    pf.op = "round_trip" => (pf.status = "ok" /\ pf.value = pf.offset)

\* C16: for every base B >= 2 and dimension V >= 1 the layer-size table is
\* computed without error and hypercube_part_size(B, V, d) is the number of
\* vectors of {0..B-1}^V whose digits sum to d, for every d in 0..V*(B-1).
C16_LayerSizes ==
    pf.op = "part_size" =>
        (pf.status = "ok" /\ pf.value = LayerCount(pf.w, pf.v, pf.d))

\* Layer l of the tree of the last HashTreeBuilder.new call is aligned: even
\* start index (start_index >> l aligned down) and an even number of nodes,
\* made of the computed nodes (hash outputs) with one random padding node in
\* front exactly when the unpadded start is odd and one at the back exactly
\* when the unpadded end index is even.
LayerAligned(l) ==
    LET layer == pf.tree.layers[l + 1]
        n == Len(layer.nodes)
        unpadded_start == pf.start_index \div (2 ^ l)
        computed == IF l = 0 THEN Len(pf.leaf_hashes)
                    ELSE Len(pf.tree.layers[l].nodes) \div 2
        front == IF unpadded_start % 2 = 1 THEN 1 ELSE 0
        back == IF (unpadded_start + computed - 1) % 2 = 0 THEN 1 ELSE 0
    IN  /\ layer.start_index % 2 = 0
        /\ n % 2 = 0
        /\ layer.start_index = unpadded_start - (unpadded_start % 2)
        /\ n = front + computed + back
        /\ \A k \in 1..n :
              layer.nodes[k][1] = (IF (k = 1 /\ front = 1) \/ (k = n /\ back = 1)
                                   THEN 4 ELSE 2)

\* C21: layer alignment: in every tree HashTreeBuilder.new built from a
\* non-empty leaf list every stored layer is aligned (LayerAligned), so every
\* node of every layer below the root has its sibling in the layer.
C21_LayerAlignment ==
    (pf.op = "tree" /\ pf.status = "ok" /\ pf.leaf_hashes # <<>>) =>
        /\ Len(pf.tree.layers) = pf.depth + 1
        /\ \A l \in 0..pf.depth : LayerAligned(l)

\* A tree padded on both sides at layer 0 and in front at a layer above.
C21_Witness ==
    /\ pf.op = "tree" /\ pf.status = "ok" /\ pf.depth = MaxDepth
    /\ pf.start_index % 2 = 1 /\ Len(pf.leaf_hashes) % 2 = 1
    /\ (pf.start_index \div 2) % 2 = 1

\* C22: WinternitzEncoding.apply returns the N0 chunks followed by N1
\* checksum digits, least significant first: with S the sum of B-1 - chunks[i],
\* digit N0 + k is floor(S / B^k) mod B for k in 0..N1-1; the codeword has
\* exactly N0 + N1 digits, each in [0, B).
C22_ChecksumLsbFirst ==
    (pf.op = "winternitz" /\ pf.status = "ok") =>
        LET n0 == Len(pf.msg_chunks)
            S == SumSeq([i \in 1..n0 |-> (BASE - 1) - pf.msg_chunks[i]])
        IN  /\ Len(pf.x) = n0 + NUM_CHECKSUM_CHAINS
            /\ \A i \in 1..n0 : pf.x[i] = pf.msg_chunks[i]
            /\ \A k \in 0..(NUM_CHECKSUM_CHAINS - 1) :
                  pf.x[n0 + k + 1] = (S \div (BASE ^ k)) % BASE
            /\ \A i \in 1..Len(pf.x) : pf.x[i] \in 0..(BASE - 1)

\* The example of the claim: chunks [3,3,3,3] give [3,3,3,3,0,0].
C22_Witness ==
    /\ pf.op = "winternitz" /\ pf.status = "ok"
    /\ pf.msg_chunks = <<3, 3, 3, 3>>
    /\ SubSeq(pf.x, 1, 6) = <<3, 3, 3, 3, 0, 0>>

\* C23: the two Winternitz implementations agree on the checksum: the
\* checksum part of BasicWinternitzEncoding.encode is the least-significant-
\* first digit sequence cs[k] = floor(S / B^k) mod B of
\* WinternitzEncoding._checksum_chunks, and with
\* n1 = ceil(bit_length(n0 * (B - 1)) / w) 'Checksum overflow' is never raised.
C23_ChecksumsAgree ==
    pf.op = "basic_winternitz" =>
        LET n0 == Len(pf.digits)
            S == SumSeq([i \in 1..n0 |-> (pf.enc.base - 1) - pf.digits[i]])
        IN  /\ pf.status = "ok"
            /\ Len(pf.x) = n0 + pf.enc.n1
            /\ \A k \in 0..(pf.enc.n1 - 1) :
                  pf.x[n0 + k + 1] = (S \div (pf.enc.base ^ k)) % pf.enc.base

\* A vector x of v digits in [0, base) that sums to target.
TargetVector(x, v, base, target) ==
    /\ Len(x) = v
    /\ \A i \in 1..Len(x) : 0 <= x[i] /\ x[i] < base
    /\ SumSeq(x) = target

\* C24: TargetSumWinternitzEncoding.encode is strict: it returns x only if x
\* has v digits in [0, base) summing to target and raises EncodingError for
\* every message whose digit vector sums to another value;
\* encode_with_last_digit_adjustment returns only such vectors too and raises
\* EncodingError otherwise.
C24_TargetSumStrict ==
    pf.op = "target_sum" =>
        LET digits == [i \in 1..pf.v |-> pf.digest[i] % pf.base]
        IN  /\ pf.strict.status \in {"ok", "EncodingError"}
            /\ pf.strict.status = "ok" =>
                   (pf.strict.x = digits /\ TargetVector(pf.strict.x, pf.v, pf.base, pf.target))
            /\ SumSeq(digits) # pf.target => pf.strict.status = "EncodingError"
            /\ pf.adjusted.status \in {"ok", "EncodingError"}
            /\ pf.adjusted.status = "ok" =>
                   TargetVector(pf.adjusted.x, pf.v, pf.base, pf.target)

\* A message the strict encoder rejects and the adjusting encoder accepts.
C24_Witness ==
    /\ pf.op = "target_sum" /\ pf.v >= 2
    /\ pf.strict.status = "EncodingError" /\ pf.adjusted.status = "ok"

\* The four bytes of e, most significant first.
BigEndian4(e) ==
    <<(e \div 16777216) % 256, (e \div 65536) % 256, (e \div 256) % 256, e % 256>>

\* The four bytes of e, least significant first.
LittleEndian4(e) ==
    <<e % 256, (e \div 256) % 256, (e \div 65536) % 256, (e \div 16777216) % 256>>

TweakInRange(t) ==
    /\ t.level \in 0..255 /\ t.chain_index \in 0..255 /\ t.pos_in_chain \in 0..255
    /\ t.pos_in_level >= 0 /\ t.epoch >= 0

\* The byte layout of a tweak.
TweakLayout(t) ==
    IF t.kind = "tree" THEN <<1, t.level>> \o BigEndian4(t.pos_in_level)
    ELSE <<0>> \o BigEndian4(t.epoch) \o <<t.chain_index, t.pos_in_chain>>

\* C27: TreeTweak.to_bytes is the 6 bytes [0x01, level, pos as 4 big-endian
\* bytes], ChainTweak.to_bytes the 7 bytes [0x00, epoch as 4 big-endian
\* bytes, chain_index, pos]; two in-range tweaks with equal encodings are the
\* same tweak, so each encoding is injective and no tree tweak encoding
\* equals a chain tweak encoding.
C27_TweakDomainSeparation ==
    pf.op = "sha_tweak" =>
        /\ TweakInRange(pf.a) =>
              /\ pf.a_bytes.status = "ok"
              /\ pf.a_bytes.value = TweakLayout(pf.a)
              /\ Len(pf.a_bytes.value) = IF pf.a.kind = "tree" THEN 6 ELSE 7
        /\ (TweakInRange(pf.a) /\ TweakInRange(pf.b)
                /\ pf.a_bytes.value = pf.b_bytes.value) => pf.a = pf.b

\* A tree tweak and a chain tweak with the same argument values, encoded.
C27_Witness ==
    /\ pf.op = "sha_tweak"
    /\ pf.a.kind = "tree" /\ pf.b.kind = "chain"
    /\ pf.a.level = 1 /\ pf.a.pos_in_level = 256
    /\ pf.b.epoch = 256 /\ pf.b.chain_index = 1
    /\ pf.a_bytes.status = "ok" /\ pf.b_bytes.status = "ok"
    /\ pf.a_bytes.value # pf.b_bytes.value

\* C26: PoseidonTweakHash.apply terminates and returns hash_len field
\* elements for message lists of length 1, 2 and more than 2, for every
\* instance that passes internal_consistency_check: the padding loop of the
\* compression stops once the input is padded to the width, after at most
\* width - len(combined_input) passes, and a returned value has hash_len
\* elements below the modulus.
C26_ApplyTerminates ==
    (pf.op = "poseidon" /\ pf.n >= 1) =>
        /\ pf.pc = "pad" => pf.pad_updates <= Max(pf.width - pf.fe_len, 0)
        /\ pf.pc = "done" =>
              /\ pf.status = "ok"
              /\ Len(pf.value) = pf.th.hash_len
              /\ \A i \in 1..Len(pf.value) : pf.value[i] \in 0..(P_BABYBEAR - 1)

\* The number of vertices of {0..w-1}^v in layers 0..d.
RECURSIVE LayerCountUpto(_, _, _)
LayerCountUpto(w, v, d) ==
    IF d < 0 THEN 0 ELSE LayerCount(w, v, d) + LayerCountUpto(w, v, d - 1)

\* A list of v digits in [0, w).
Digits(a, w, v) == Len(a) = v /\ \A i \in 1..Len(a) : a[i] \in 0..(w - 1)

\* C28: for every non-negative integer a and every final_layer in
\* 0..V*(B-1), _map_into_hypercube_part reduces a modulo S, the number of
\* vertices in layers 0..final_layer, hypercube_find_layer returns (d, offset)
\* with d <= final_layer, offset below the size of layer d and (size of
\* layers 0..d-1) + offset = a mod S, and the result has V digits in [0, B).
C28_MapIntoHypercubePart ==
    pf.op = "map_into_hypercube" =>
        /\ pf.r.status = "ok"
        /\ pf.r.part_size = LayerCountUpto(pf.base, pf.dimension, pf.final_layer)
        /\ pf.r.layer[1] \in 0..pf.final_layer
        /\ pf.r.layer[2] \in 0..(LayerCount(pf.base, pf.dimension, pf.r.layer[1]) - 1)
        /\ LayerCountUpto(pf.base, pf.dimension, pf.r.layer[1] - 1) + pf.r.layer[2]
               = pf.r.acc % pf.r.part_size
        /\ Digits(pf.r.vertex, pf.base, pf.dimension)

\* C29: for every legal (B, V, d), map_to_vertex(B, V, d, .) is a bijection
\* from the offsets 0..size(d)-1 onto layer d: every output has V digits in
\* [0, B) whose sum is d, and distinct offsets give distinct vertices.
C29_MapToVertexBijection ==
    pf.op = "vertex_pair" =>
        /\ pf.a1.status = "ok" /\ pf.a2.status = "ok"
        /\ Digits(pf.a1.value, pf.w, pf.v) /\ SumSeq(pf.a1.value) = pf.d
        /\ Digits(pf.a2.value, pf.w, pf.v) /\ SumSeq(pf.a2.value) = pf.d
        /\ pf.x1 # pf.x2 => pf.a1.value # pf.a2.value

\* A complete table of base w: a row for every dimension 0..MAX_DIMENSION,
\* the row of dimension 1 with the w layers of base w.
CompleteTable(table, w) ==
    /\ Len(table) = MAX_DIMENSION + 1
    /\ Len(table[2].sizes) = w

\* C30: the lazily filled layer cache is safe under concurrent first use:
\* under every interleaving of concurrent _get_layer_data(w) calls for the
\* same or different bases every caller gets the complete table of its own
\* w, and once _all_layer_info_cache[w] is set it never changes to a
\* different value: the entry of w stays the table every earlier caller got.
C30_CacheSafe ==
    pf.op = "get_layer_data" =>
        \A t \in 1..MaxThreads :
            pf.threads[t].pc \in {"returned", "raised"} =>
                /\ pf.threads[t].status = "ok"
                /\ CompleteTable(pf.threads[t].result, pf.threads[t].w)
                /\ pf.cache[pf.threads[t].w].present
                /\ pf.cache[pf.threads[t].w].table = pf.threads[t].result

====
